---- MODULE Spec2Model ----
(***************************************************************************)
(* A model of the component-map crate: ComponentManager / ComponentMap, a  *)
(* HashMap<Key, WithArgs<Args, Comp>> plus the factory FnInit, with its    *)
(* init / reinit_all / reinit / update operations in the four variants     *)
(* (sync, try = sync fallible, async, try_async = async fallible).         *)
(*                                                                         *)
(* The sync operations and the tail of the async ones return lazy          *)
(* iterators that borrow the manager mutably: the map changes one element  *)
(* at a time, as the caller pulls results (the _next actions), and the     *)
(* caller may let go of the iterator at any point (Release).  The async    *)
(* operations first create one future per element, which join_all drives   *)
(* to completion in any order (the _poll actions), and only then hand out  *)
(* the iterator (the _join actions).                                       *)
(***************************************************************************)
EXTENDS Integers, Sequences, FiniteSets, TLC

\* ---------------------------------------------------------------- bounds
NumKeys == 2
MaxVal == 2
MaxLen == 2

\* ------------------------------------------------------------- constants
\* The factory of the tests: Counter(args.value * 2).
Mult == 2
\* The plain factory of the tests: Counter(args.value).
Plain == 1
\* The component the accessor test writes through components_mut.
Tampered == 999

Keys == 1..NumKeys
Values == 1..MaxVal

\* ------------------------------------------------------------ data model
\* Option and Result values, as tagged tuples.
None == <<"None">>
Some(x) == <<"Some", x>>
Ok(x) == <<"Ok", x>>
Err(e) == <<"Err", e>>
IsNone(v) == v[1] = "None"
IsSome(v) == v[1] = "Some"
IsOk(v) == v[1] = "Ok"
IsErr(v) == v[1] = "Err"
Unwrap(v) == v[2]

\* struct Keyed { key, value }
Keyed(k, v) == [key |-> k, value |-> v]

\* struct WithArgs { component, args }
WithArgs(c, a) == [component |-> c, args |-> a]

\* The argument types of the tests: Args { value } for the infallible
\* variants, FailArgs { value, should_fail } for the fallible ones.
Args == [value : Values, should_fail : {FALSE}]
FailArgs == [value : Values, should_fail : BOOLEAN]

Fallible(k) == k \in {"try", "try_async"}

\* HashMap<Key, WithArgs>: a function on the keys it holds.
EmptyMap == << >>
Has(m, k) == k \in DOMAIN m
\* HashMap::insert: the map with k bound to w.
Insert(m, k, w) == [x \in DOMAIN m \cup {k} |-> IF x = k THEN w ELSE m[x]]
\* HashMap::get: Some(entry) or None.
Get(m, k) == IF Has(m, k) THEN Some(m[k]) ELSE None
\* mem::replace(&mut entry.component, next): the map after the write.
ReplaceComponent(m, k, next) == [m EXCEPT ![k].component = next]

\* --------------------------------------------------------------- sequences
Indices(s) == 1..Len(s)
SeqsUpTo(S, n) == UNION {[1..m -> S] : m \in 0..n}
\* The orders in which a HashMap may iterate over its keys.
Orders(S) == {s \in [1..Cardinality(S) -> S] : \A i, j \in 1..Cardinality(S) : i # j => s[i] # s[j]}

\* Collect, had a key already collected kept its first entry.
RECURSIVE Collect_first_wins(_)
Collect_first_wins(pairs) ==
    IF pairs = << >> THEN EmptyMap
    ELSE LET n == Len(pairs)
             m == Collect_first_wins(SubSeq(pairs, 1, n - 1))
         IN  IF Has(m, pairs[n][1]) THEN m ELSE Insert(m, pairs[n][1], pairs[n][2])

\* collect::<HashMap<_, _>>() of (key, WithArgs) pairs: later pairs win.
RECURSIVE Collect(_)
Collect(pairs) ==
    IF pairs = << >> THEN EmptyMap
    ELSE LET n == Len(pairs)
         IN  Insert(Collect(SubSeq(pairs, 1, n - 1)), pairs[n][1], pairs[n][2])

VARIABLES
    reg,        \* "none" before construction, "built", or "failed"
    kind,       \* the variant the manager was built with
    map,        \* ComponentManager.map
    call,       \* the operation in progress: [op, phase, input]
    futs,       \* per input position: the future of its factory invocation (async),
                \* or what the factory answered when next() ran it (sync)
    started,    \* the input positions whose factory invocation has begun, in order
    completed,  \* the input positions whose factory invocation has ended, in order
    out,        \* the results the caller has received so far
    ctor,       \* what construction returned: None, Ok or Err(e)
    before,     \* the map as it was when the operation in progress was called
    ctor_calls, \* the tests' call_count as init / init_async left it: Some(the
                \* number of factory invocations construction made), until the
                \* first operation after construction is over, then None
    factory,    \* ComponentManager.init: the factory the caller gives at construction
    seen        \* what components() and fn_init() last returned, each None once
                \* the manager has been borrowed mutably since

vars == <<reg, kind, map, call, futs, started, completed, out, ctor, before, ctor_calls, factory, seen>>

\* ---------------------------------------------------------------- factory
\* The two factories the tests give a manager: the call-counting one, which
\* builds Counter(args.value * 2) and may answer Ok whatever should_fail says,
\* and the plain one, which builds Counter(args.value) and fails exactly when
\* should_fail is set.
CountingFactory == [mult |-> Mult, strict |-> FALSE]
PlainFactory == [mult |-> Plain, strict |-> TRUE]
Factories == {CountingFactory, PlainFactory}

\* The value a successful invocation of the manager's factory produces.
Produce(args) == args.value * factory.mult

\* The infallible factories: Fn(&Args) -> Comp, AsyncFn(&Key, &Args) -> Comp.
FnInit(args) == Produce(args)
FnInitKeyed(key, args) == Produce(args)

\* The error a failing invocation reports for these arguments.
TestError(args) == args.value

\* The outcomes of one invocation of the fallible factories.  The tests'
\* factories never fail without should_fail; with it they fail always or,
\* in the call-counting factories, from some call on.
TryFnInit(args) ==
    IF factory.strict
    THEN IF args.should_fail THEN {Err(TestError(args))} ELSE {Ok(Produce(args))}
    ELSE {Ok(Produce(args))} \cup (IF args.should_fail THEN {Err(TestError(args))} ELSE {})

Idle == [op |-> "none", phase |-> "idle", input |-> << >>]
\* A future: still running, or finished with its output.
Pending == <<"Pending">>
Done(v) == <<"Done", v>>
IsPending(f) == f[1] = "Pending"
IsDone(f) == f[1] = "Done"
\* A position that next() passed without invoking the factory.
Skipped == <<"Skipped">>
Output(f) == f[2]

\* No accessor has been called.
Unseen == [components |-> None, fn_init |-> None]

\* Before construction, whatever factory the caller holds.
NoManager ==
    /\ reg = "none"
    /\ kind = "none"
    /\ map = EmptyMap
    /\ call = Idle
    /\ futs = << >>
    /\ started = << >>
    /\ completed = << >>
    /\ out = << >>
    /\ ctor = None
    /\ before = EmptyMap
    /\ ctor_calls = None
    /\ seen = Unseen

\* The caller holds the call-counting factory.
Init == NoManager /\ factory = CountingFactory

\* ----------------------------------------------------------- bookkeeping
\* An operation is called: nothing invoked or yielded yet.
Begin(op, phase, input, fs, st) ==
    /\ call' = [op |-> op, phase |-> phase, input |-> input]
    /\ futs' = fs
    /\ started' = st
    /\ completed' = << >>
    /\ out' = << >>
    /\ before' = map
    /\ seen' = Unseen
    /\ UNCHANGED <<reg, kind, ctor, ctor_calls, factory>>

\* The manager exists, is of variant k, and is not borrowed by an iterator.
Ready(k) == reg = "built" /\ kind = k /\ call.phase = "idle"

\* HasNext, had the iterator ended at the first error it handed out.
HasNext_until_error(op) ==
    /\ call.op = op
    /\ call.phase = "iter"
    /\ Len(out) < Len(call.input)
    /\ Fallible(kind) =>
           \A i \in 1..Len(out) :
               LET v == out[i].value
               IN  ~(IsErr(v) \/ (IsSome(v) /\ IsErr(Unwrap(v))))

\* The iterator of operation op has another element to hand out.
HasNext(op) == call.op = op /\ call.phase = "iter" /\ Len(out) < Len(call.input)
\* The position of that element in the input.
Pos == Len(out) + 1

\* The iterator of a sync operation hands out one element; f is Done(answer)
\* if producing it ran the factory (the sync variants run it inside next()),
\* Skipped if it did not.
Yield(r, f) ==
    /\ map' = r.map
    /\ out' = Append(out, r.item)
    /\ futs' = Append(futs, f)
    /\ started' = IF IsDone(f) THEN Append(started, Pos) ELSE started
    /\ completed' = IF IsDone(f) THEN Append(completed, Pos) ELSE completed
    /\ UNCHANGED <<reg, kind, call, ctor, before, ctor_calls, factory, seen>>

\* ------------------------------------------------------- sync, infallible
\* ComponentManager::init
init(entries) ==
    /\ reg = "none"
    /\ call.phase = "idle"
    /\ reg' = "built"
    /\ kind' = "sync"
    /\ map' = Collect([i \in Indices(entries) |->
                         <<entries[i][1], WithArgs(FnInit(entries[i][2]), entries[i][2])>>])
    /\ call' = [op |-> "init", phase |-> "done", input |-> entries]
    /\ started' = [i \in Indices(entries) |-> i]
    /\ completed' = [i \in Indices(entries) |-> i]
    /\ ctor' = Ok("registry")
    /\ futs' = [i \in Indices(entries) |-> Done(FnInit(entries[i][2]))]
    /\ ctor_calls' = Some(Len(entries))
    /\ UNCHANGED <<out, before, factory, seen>>

\* reinit_all: the iterator over map.iter_mut(), in the map's order.
reinit_all ==
    /\ Ready("sync")
    /\ \E order \in Orders(DOMAIN map) : Begin("reinit_all", "iter", order, << >>, << >>)
    /\ UNCHANGED map

\* reinit_all's closure, had it run the factory on the args of the map's
\* least key for every entry.
reinit_all_item_first_args(m, key) ==
    LET first == CHOOSE k \in DOMAIN m : \A j \in DOMAIN m : k <= j
        next == FnInit(m[first].args)
    IN  [map |-> ReplaceComponent(m, key, next), item |-> Keyed(key, m[key].component)]

\* The closure of reinit_all, applied to one entry.
reinit_all_item(m, key) ==
    LET next == FnInit(m[key].args)
    IN  [map |-> ReplaceComponent(m, key, next), item |-> Keyed(key, m[key].component)]

reinit_all_next ==
    /\ HasNext("reinit_all")
    /\ Yield(reinit_all_item(map, call.input[Pos]), Done(FnInit(map[call.input[Pos]].args)))

\* reinit(keys)
reinit(keys) ==
    /\ Ready("sync")
    /\ Begin("reinit", "iter", keys, << >>, << >>)
    /\ UNCHANGED map

\* reinit's closure, had it re-created every stored entry, not only key's.
reinit_item_recreates_all(m, key) ==
    IF Has(m, key)
    THEN [map |-> [k \in DOMAIN m |-> WithArgs(FnInit(m[k].args), m[k].args)],
          item |-> Keyed(key, Some(m[key].component))]
    ELSE [map |-> m, item |-> Keyed(key, None)]

\* The closure of reinit, applied to one key.
reinit_item(m, key) ==
    IF Has(m, key)
    THEN [map |-> ReplaceComponent(m, key, FnInit(m[key].args)),
          item |-> Keyed(key, Some(m[key].component))]
    ELSE [map |-> m, item |-> Keyed(key, None)]

reinit_next ==
    /\ HasNext("reinit")
    /\ Yield(reinit_item(map, call.input[Pos]),
             IF Has(map, call.input[Pos]) THEN Done(FnInit(map[call.input[Pos]].args)) ELSE Skipped)

\* update, had it run the factory and inserted for the first pair when it
\* was called, before the iterator is consumed.
update_eager_first(updates) ==
    /\ Ready("sync")
    /\ Begin("update", "iter", updates, << >>, IF updates = << >> THEN << >> ELSE <<1>>)
    /\ map' = IF updates = << >> THEN map
              ELSE Insert(map, updates[1][1], WithArgs(FnInit(updates[1][2]), updates[1][2]))

\* update, had the call replaced the manager's factory by the plain one.
update_overrides_factory(updates) ==
    /\ Ready("sync")
    /\ call' = [op |-> "update", phase |-> "iter", input |-> updates]
    /\ futs' = << >>
    /\ started' = << >>
    /\ completed' = << >>
    /\ out' = << >>
    /\ before' = map
    /\ seen' = Unseen
    /\ factory' = PlainFactory
    /\ UNCHANGED <<reg, kind, map, ctor, ctor_calls>>

\* update(updates)
update(updates) ==
    /\ Ready("sync")
    /\ Begin("update", "iter", updates, << >>, << >>)
    /\ UNCHANGED map

\* update's closure, had it built the component from the args already stored.
update_item_stale_args(m, key, args) ==
    [map |-> Insert(m, key, WithArgs(IF Has(m, key) THEN FnInit(m[key].args) ELSE FnInit(args), args)),
     item |-> Keyed(key, Get(m, key))]

\* update's closure, had it also re-created the component of every other
\* stored entry from that entry's args.
update_item_rebuilds_others(m, key, args) ==
    [map |-> [k \in DOMAIN m \cup {key} |->
                 IF k = key THEN WithArgs(FnInit(args), args)
                 ELSE WithArgs(FnInit(m[k].args), m[k].args)],
     item |-> Keyed(key, Get(m, key))]

\* The closure of update, applied to one (key, args) pair.
update_item(m, key, args) ==
    [map |-> Insert(m, key, WithArgs(FnInit(args), args)), item |-> Keyed(key, Get(m, key))]

update_next ==
    /\ HasNext("update")
    /\ Yield(update_item(map, call.input[Pos][1], call.input[Pos][2]), Done(FnInit(call.input[Pos][2])))

\* --------------------------------------------------------- sync, fallible
\* Result<Option<T>, E>::transpose
Transpose(r) ==
    IF IsErr(r) THEN Some(r)
    ELSE IF IsNone(Unwrap(r)) THEN None
    ELSE Some(Ok(Unwrap(Unwrap(r))))

\* FirstErr, had the collect looked at the first result only.
FirstErr_head_only(rs) == IF rs # << >> /\ IsErr(rs[1]) THEN 1 ELSE 0

\* FirstErr, had the collect kept the last error it met.
FirstErr_last(rs) ==
    IF \E i \in Indices(rs) : IsErr(rs[i])
    THEN CHOOSE i \in Indices(rs) : IsErr(rs[i]) /\ \A j \in (i + 1)..Len(rs) : ~IsErr(rs[j])
    ELSE 0

\* The first position of rs holding an Err, or 0.
FirstErr(rs) ==
    IF \E i \in Indices(rs) : IsErr(rs[i])
    THEN CHOOSE i \in Indices(rs) : IsErr(rs[i]) /\ \A j \in 1..(i - 1) : ~IsErr(rs[j])
    ELSE 0

\* The factory's possible answers to each pair of entries.
Answers(entries) ==
    {rs \in [Indices(entries) -> {Ok(Produce(a)) : a \in FailArgs} \cup {Err(TestError(a)) : a \in FailArgs}] :
        \A i \in Indices(entries) : rs[i] \in TryFnInit(entries[i][2])}

\* try_init, had it run the factory on every pair before looking for an error.
try_init_runs_all(entries) ==
    /\ reg = "none"
    /\ call.phase = "idle"
    /\ kind' = "try"
    /\ \E rs \in Answers(entries) :
        LET f == FirstErr(rs)
            n == Len(entries)
        IN  /\ reg' = IF f = 0 THEN "built" ELSE "failed"
            /\ map' = IF f = 0
                      THEN Collect([i \in Indices(entries) |->
                              <<entries[i][1], WithArgs(Unwrap(rs[i]), entries[i][2])>>])
                      ELSE EmptyMap
            /\ ctor' = IF f = 0 THEN Ok("registry") ELSE rs[f]
            /\ started' = [i \in 1..n |-> i]
            /\ completed' = [i \in 1..n |-> i]
            /\ futs' = [i \in 1..n |-> Done(rs[i])]
            /\ ctor_calls' = None
    /\ call' = [op |-> "try_init", phase |-> "done", input |-> entries]
    /\ UNCHANGED <<out, before, factory, seen>>

\* ComponentManager::try_init: collect::<Result<HashMap, _>>() stops at the
\* first Err; rs[i] is what the factory answers if it is asked for pair i.
try_init(entries) ==
    /\ reg = "none"
    /\ call.phase = "idle"
    /\ kind' = "try"
    /\ \E rs \in Answers(entries) :
        LET f == FirstErr(rs)
            n == IF f = 0 THEN Len(entries) ELSE f
        IN  /\ reg' = IF f = 0 THEN "built" ELSE "failed"
            /\ map' = IF f = 0
                      THEN Collect([i \in Indices(entries) |->
                              <<entries[i][1], WithArgs(Unwrap(rs[i]), entries[i][2])>>])
                      ELSE EmptyMap
            /\ ctor' = IF f = 0 THEN Ok("registry") ELSE rs[f]
            /\ started' = [i \in 1..n |-> i]
            /\ completed' = [i \in 1..n |-> i]
            /\ futs' = [i \in 1..n |-> Done(rs[i])]
            /\ ctor_calls' = None
    /\ call' = [op |-> "try_init", phase |-> "done", input |-> entries]
    /\ UNCHANGED <<out, before, factory, seen>>

\* try_reinit_all
try_reinit_all ==
    /\ Ready("try")
    /\ \E order \in Orders(DOMAIN map) : Begin("try_reinit_all", "iter", order, << >>, << >>)
    /\ UNCHANGED map

\* try_reinit_all's closure, had it reported the new component, not the old.
try_reinit_all_item_reports_next(m, key, result) ==
    IF IsOk(result)
    THEN [map |-> ReplaceComponent(m, key, Unwrap(result)),
          item |-> Keyed(key, Ok(Unwrap(result)))]
    ELSE [map |-> m, item |-> Keyed(key, result)]

\* The closure of try_reinit_all; result is the factory's answer.
try_reinit_all_item(m, key, result) ==
    IF IsOk(result)
    THEN [map |-> ReplaceComponent(m, key, Unwrap(result)),
          item |-> Keyed(key, Ok(m[key].component))]
    ELSE [map |-> m, item |-> Keyed(key, result)]

\* try_reinit_all's iterator, had it run the factory on the args as they
\* were when the entry was built (not failing), not as they are stored now.
try_reinit_all_next_args_as_built ==
    /\ HasNext("try_reinit_all")
    /\ \E result \in TryFnInit([map[call.input[Pos]].args EXCEPT !.should_fail = FALSE]) :
           Yield(try_reinit_all_item(map, call.input[Pos], result), Done(result))

try_reinit_all_next ==
    /\ HasNext("try_reinit_all")
    /\ \E result \in TryFnInit(map[call.input[Pos]].args) :
           Yield(try_reinit_all_item(map, call.input[Pos], result), Done(result))

\* try_reinit(keys)
try_reinit(keys) ==
    /\ Ready("try")
    /\ Begin("try_reinit", "iter", keys, << >>, << >>)
    /\ UNCHANGED map

\* try_reinit's closure, had it dropped the entry whose re-creation failed.
try_reinit_item_drops_on_error(m, key, result) ==
    IF IsOk(result)
    THEN [map |-> ReplaceComponent(m, key, Unwrap(result)),
          item |-> Keyed(key, Some(Ok(m[key].component)))]
    ELSE [map |-> [k \in DOMAIN m \ {key} |-> m[k]], item |-> Keyed(key, Some(result))]

\* The closure of try_reinit for a key the map holds.
try_reinit_item(m, key, result) ==
    IF IsOk(result)
    THEN [map |-> ReplaceComponent(m, key, Unwrap(result)),
          item |-> Keyed(key, Some(Ok(m[key].component)))]
    ELSE [map |-> m, item |-> Keyed(key, Some(result))]

try_reinit_next ==
    /\ HasNext("try_reinit")
    /\ LET key == call.input[Pos]
       IN  IF Has(map, key)
           THEN \E result \in TryFnInit(map[key].args) :
                    Yield(try_reinit_item(map, key, result), Done(result))
           ELSE Yield([map |-> map, item |-> Keyed(key, None)], Skipped)

\* try_update(updates)
try_update(updates) ==
    /\ Ready("try")
    /\ Begin("try_update", "iter", updates, << >>, << >>)
    /\ UNCHANGED map

\* try_update's closure, had it evicted the old entry before asking the factory.
try_update_item_evicts_first(m, key, args, result) ==
    IF IsOk(result)
    THEN [map |-> Insert(m, key, WithArgs(Unwrap(result), args)),
          item |-> Keyed(key, Transpose(Ok(Get(m, key))))]
    ELSE [map |-> [k \in DOMAIN m \ {key} |-> m[k]], item |-> Keyed(key, Transpose(result))]

\* The closure of try_update; result is the factory's answer for args.
try_update_item(m, key, args, result) ==
    IF IsOk(result)
    THEN [map |-> Insert(m, key, WithArgs(Unwrap(result), args)),
          item |-> Keyed(key, Transpose(Ok(Get(m, key))))]
    ELSE [map |-> m, item |-> Keyed(key, Transpose(result))]

try_update_next ==
    /\ HasNext("try_update")
    /\ \E result \in TryFnInit(call.input[Pos][2]) :
           Yield(try_update_item(map, call.input[Pos][1], call.input[Pos][2], result), Done(result))

\* AllStarted, had every future invoked the factory twice.
AllStarted_twice(input) == [i \in 1..(2 * Len(input)) |-> ((i - 1) % Len(input)) + 1]

\* ------------------------------------------------------ async, infallible
\* join_all polls every future it is given once, in order, as soon as it is
\* awaited: all the factory invocations of a call start together.
AllStarted(input) == [i \in Indices(input) |-> i]
AllPending(input) == [i \in Indices(input) |-> Pending]

\* The future i of the call in progress is still running.
Running(op, i) ==
    /\ call.op = op
    /\ call.phase = "await"
    /\ i \in Indices(futs)
    /\ IsPending(futs[i])

\* Future i finishes with the output v.
Finish(i, v) ==
    /\ futs' = [futs EXCEPT ![i] = Done(v)]
    /\ completed' = Append(completed, i)
    /\ UNCHANGED <<reg, kind, map, call, started, out, ctor, before, ctor_calls, factory, seen>>

\* join_all(..).await returns: every future of the call has finished.
Joined(op) ==
    /\ call.op = op
    /\ call.phase = "await"
    /\ \A i \in Indices(futs) : ~IsPending(futs[i])

\* JoinAll, had it handed the outputs back in the order the futures finished.
JoinAll_completion_order(fs) ==
    IF Len(completed) = Len(fs)
    THEN [i \in Indices(fs) |-> Output(fs[completed[i]])]
    ELSE [i \in Indices(fs) |-> Output(fs[i])]

\* The Vec join_all resolves to: the outputs, in the order of the futures.
JoinAll(fs) == [i \in Indices(fs) |-> Output(fs[i])]

\* The async operation returns its iterator.
ReturnIter ==
    /\ call' = [call EXCEPT !.phase = "iter"]
    /\ UNCHANGED <<reg, kind, map, futs, started, completed, out, ctor, before, ctor_calls, factory, seen>>

\* The iterator of an async operation hands out one element.
YieldAsync(r) ==
    /\ map' = r.map
    /\ out' = Append(out, r.item)
    /\ UNCHANGED <<reg, kind, call, futs, started, completed, ctor, before, ctor_calls, factory, seen>>

\* ComponentMap::init_async: the futures are created and first polled.
init_async(entries) ==
    /\ reg = "none"
    /\ call.phase = "idle"
    /\ kind' = "async"
    /\ call' = [op |-> "init_async", phase |-> "await", input |-> entries]
    /\ futs' = AllPending(entries)
    /\ started' = AllStarted(entries)
    /\ UNCHANGED <<reg, map, completed, out, ctor, before, ctor_calls, factory, seen>>

\* init_async's async block, had it stored a default in place of the args.
init_async_fut_loses_args(key, args) ==
    <<key, WithArgs(FnInitKeyed(key, args), [value |-> 1, should_fail |-> FALSE])>>

\* The async block of init_async for one entry.
init_async_fut(key, args) == <<key, WithArgs(FnInitKeyed(key, args), args)>>

init_async_poll(i) ==
    /\ Running("init_async", i)
    /\ Finish(i, init_async_fut(call.input[i][1], call.input[i][2]))

\* join_all(..).await.into_iter().collect()
init_async_join ==
    /\ Joined("init_async")
    /\ map' = Collect(JoinAll(futs))
    /\ reg' = "built"
    /\ ctor' = Ok("registry")
    /\ call' = [call EXCEPT !.phase = "done"]
    /\ ctor_calls' = Some(Len(started))
    /\ UNCHANGED <<kind, futs, started, completed, out, before, factory, seen>>

\* reinit_all_async: one future per entry, in the order of map.iter().
reinit_all_async ==
    /\ Ready("async")
    /\ \E order \in Orders(DOMAIN map) :
           Begin("reinit_all_async", "await", order, AllPending(order), AllStarted(order))
    /\ UNCHANGED map

reinit_all_async_poll(i) ==
    /\ Running("reinit_all_async", i)
    /\ Finish(i, FnInitKeyed(call.input[i], map[call.input[i]].args))

\* reinit_all_async, had it replaced every component as soon as join_all
\* returned, before handing out the iterator.
reinit_all_async_join_replaces ==
    /\ Joined("reinit_all_async")
    /\ call' = [call EXCEPT !.phase = "iter"]
    /\ map' = [k \in DOMAIN map |->
                  LET i == CHOOSE j \in Indices(call.input) : call.input[j] = k
                  IN  WithArgs(Output(futs[i]), map[k].args)]
    /\ UNCHANGED <<reg, kind, futs, started, completed, out, ctor, before, ctor_calls, factory, seen>>

reinit_all_async_join ==
    /\ Joined("reinit_all_async")
    /\ ReturnIter

\* reinit_all_async's closure, had it dropped the new component.
reinit_all_async_item_keeps_old(m, key, next) ==
    [map |-> m, item |-> Keyed(key, m[key].component)]

\* The closure over map.iter_mut().zip(next_components).
reinit_all_async_item(m, key, next) ==
    [map |-> ReplaceComponent(m, key, next), item |-> Keyed(key, m[key].component)]

\* reinit_all_async's iterator, had map.iter_mut() walked the entries in
\* the reverse of the order in which map.iter() made the futures.
reinit_all_async_next_misaligned ==
    /\ HasNext("reinit_all_async")
    /\ YieldAsync(reinit_all_async_item(map, call.input[Pos], JoinAll(futs)[Len(futs) + 1 - Pos]))

\* map.iter_mut() walks the entries in the order map.iter() did.
reinit_all_async_next ==
    /\ HasNext("reinit_all_async")
    /\ YieldAsync(reinit_all_async_item(map, call.input[Pos], JoinAll(futs)[Pos]))

\* Present, had the factory been run for every listed key.
RECURSIVE Present_all(_, _, _)
Present_all(m, keys, i) ==
    IF i > Len(keys) THEN << >> ELSE <<i>> \o Present_all(m, keys, i + 1)

\* The positions of keys whose key the map holds, in order.
RECURSIVE Present(_, _, _)
Present(m, keys, i) ==
    IF i > Len(keys) THEN << >>
    ELSE (IF Has(m, keys[i]) THEN <<i>> ELSE << >>) \o Present(m, keys, i + 1)

\* reinit_async(keys): the future of a key the map lacks has nothing to
\* await and is ready, with None, at its first poll.
reinit_async(keys) ==
    /\ Ready("async")
    /\ Begin("reinit_async", "await", keys,
             [i \in Indices(keys) |->
                 IF Has(map, keys[i]) THEN Pending ELSE Done(Keyed(keys[i], None))],
             Present(map, keys, 1))
    /\ UNCHANGED map

\* The async block of reinit_async for a key the map holds.
reinit_async_fut(key, args) == Keyed(key, Some(FnInitKeyed(key, args)))

reinit_async_poll(i) ==
    /\ Running("reinit_async", i)
    /\ Finish(i, reinit_async_fut(call.input[i], map[call.input[i]].args))

reinit_async_join ==
    /\ Joined("reinit_async")
    /\ ReturnIter

\* reinit_async's closure, had it reported the new component, not the old.
reinit_async_item_reports_next(m, r) ==
    IF IsSome(r.value) /\ Has(m, r.key)
    THEN [map |-> ReplaceComponent(m, r.key, Unwrap(r.value)),
          item |-> Keyed(r.key, r.value)]
    ELSE [map |-> m, item |-> Keyed(r.key, None)]

\* reinit_async's closure, had it reported the component the key held when
\* the call was made, whatever an earlier occurrence installed since.
reinit_async_item_reports_snapshot(m, r) ==
    IF IsSome(r.value) /\ Has(m, r.key)
    THEN [map |-> ReplaceComponent(m, r.key, Unwrap(r.value)),
          item |-> Keyed(r.key, Some(before[r.key].component))]
    ELSE [map |-> m, item |-> Keyed(r.key, None)]

\* The closure over the joined results, r = Keyed { key, value: next }:
\* next.and_then(|next| get_mut(&key).map(|c| replace(&mut c.component, next))).
reinit_async_item(m, r) ==
    IF IsSome(r.value) /\ Has(m, r.key)
    THEN [map |-> ReplaceComponent(m, r.key, Unwrap(r.value)),
          item |-> Keyed(r.key, Some(m[r.key].component))]
    ELSE [map |-> m, item |-> Keyed(r.key, None)]

reinit_async_next ==
    /\ HasNext("reinit_async")
    /\ YieldAsync(reinit_async_item(map, JoinAll(futs)[Pos]))

\* update_async(updates)
update_async(updates) ==
    /\ Ready("async")
    /\ Begin("update_async", "await", updates, AllPending(updates), AllStarted(updates))
    /\ UNCHANGED map

\* The async block of update_async for one pair.
update_async_fut(key, args) == <<key, WithArgs(FnInitKeyed(key, args), args)>>

\* update_async's future, had it inserted its entry as soon as it finished.
update_async_poll_inserts(i) ==
    /\ Running("update_async", i)
    /\ LET r == update_async_fut(call.input[i][1], call.input[i][2])
       IN  /\ futs' = [futs EXCEPT ![i] = Done(r)]
           /\ map' = Insert(map, r[1], r[2])
    /\ completed' = Append(completed, i)
    /\ UNCHANGED <<reg, kind, call, started, out, ctor, before, ctor_calls, factory, seen>>

update_async_poll(i) ==
    /\ Running("update_async", i)
    /\ Finish(i, update_async_fut(call.input[i][1], call.input[i][2]))

update_async_join ==
    /\ Joined("update_async")
    /\ ReturnIter

\* update_async's closure, had it reported the entry it inserted.
update_async_item_reports_new(m, r) ==
    [map |-> Insert(m, r[1], r[2]), item |-> Keyed(r[1], Some(r[2]))]

\* The closure over the joined results, r = (key, component):
\* map.insert(key.clone(), component).
update_async_item(m, r) ==
    [map |-> Insert(m, r[1], r[2]), item |-> Keyed(r[1], Get(m, r[1]))]

\* update_async's iterator, had it applied the pairs in the order in which
\* their invocations finished.
update_async_next_as_finished ==
    /\ HasNext("update_async")
    /\ YieldAsync(update_async_item(map, Output(futs[completed[Pos]])))

update_async_next ==
    /\ HasNext("update_async")
    /\ YieldAsync(update_async_item(map, JoinAll(futs)[Pos]))

\* -------------------------------------------------------- async, fallible
\* Result::map(|component| WithArgs { component, args })
MapWithArgs(result, args) ==
    IF IsOk(result) THEN Ok(WithArgs(Unwrap(result), args)) ELSE result

\* ComponentMap::try_init_async
try_init_async(entries) ==
    /\ reg = "none"
    /\ call.phase = "idle"
    /\ kind' = "try_async"
    /\ call' = [op |-> "try_init_async", phase |-> "await", input |-> entries]
    /\ futs' = AllPending(entries)
    /\ started' = AllStarted(entries)
    /\ UNCHANGED <<reg, map, completed, out, ctor, before, ctor_calls, factory, seen>>

\* The async block of try_init_async for one pair; result is the factory's answer.
try_init_async_fut(key, args, result) == <<key, MapWithArgs(result, args)>>

\* try_init_async's future, had a failure dropped the futures still running.
try_init_async_poll_cancels(i) ==
    /\ Running("try_init_async", i)
    /\ \E result \in TryFnInit(call.input[i][2]) :
           futs' = [j \in Indices(futs) |->
                       IF j = i
                       THEN Done(try_init_async_fut(call.input[i][1], call.input[i][2], result))
                       ELSE IF IsErr(result) /\ IsPending(futs[j]) THEN Skipped
                       ELSE futs[j]]
    /\ completed' = Append(completed, i)
    /\ UNCHANGED <<reg, kind, map, call, started, out, ctor, before, ctor_calls, factory, seen>>

try_init_async_poll(i) ==
    /\ Running("try_init_async", i)
    /\ \E result \in TryFnInit(call.input[i][2]) :
           Finish(i, try_init_async_fut(call.input[i][1], call.input[i][2], result))

\* join_all(..).await.into_iter().map(..).collect::<Result<_, _>>()?
try_init_async_join ==
    /\ Joined("try_init_async")
    /\ LET joined == JoinAll(futs)
           f == FirstErr([i \in Indices(joined) |-> joined[i][2]])
       IN  /\ reg' = IF f = 0 THEN "built" ELSE "failed"
           /\ map' = IF f = 0
                     THEN Collect([i \in Indices(joined) |->
                                      <<joined[i][1], Unwrap(joined[i][2])>>])
                     ELSE EmptyMap
           /\ ctor' = IF f = 0 THEN Ok("registry") ELSE joined[f][2]
    /\ call' = [call EXCEPT !.phase = "done"]
    /\ ctor_calls' = None
    /\ UNCHANGED <<kind, futs, started, completed, out, before, factory, seen>>

\* try_reinit_all_async
try_reinit_all_async ==
    /\ Ready("try_async")
    /\ \E order \in Orders(DOMAIN map) :
           Begin("try_reinit_all_async", "await", order, AllPending(order), AllStarted(order))
    /\ UNCHANGED map

try_reinit_all_async_poll(i) ==
    /\ Running("try_reinit_all_async", i)
    /\ \E result \in TryFnInit(map[call.input[i]].args) : Finish(i, result)

try_reinit_all_async_join ==
    /\ Joined("try_reinit_all_async")
    /\ ReturnIter

\* The closure over map.iter_mut().zip(next_components).
try_reinit_all_async_item(m, key, result) ==
    IF IsOk(result)
    THEN [map |-> ReplaceComponent(m, key, Unwrap(result)),
          item |-> Keyed(key, Ok(m[key].component))]
    ELSE [map |-> m, item |-> Keyed(key, result)]

\* try_reinit_all_async's iterator, had map.iter_mut() walked the entries in
\* the reverse of the order in which map.values() made the futures.
try_reinit_all_async_next_misaligned ==
    /\ HasNext("try_reinit_all_async")
    /\ YieldAsync(try_reinit_all_async_item(map, call.input[Pos],
                                            JoinAll(futs)[Len(futs) + 1 - Pos]))

try_reinit_all_async_next ==
    /\ HasNext("try_reinit_all_async")
    /\ YieldAsync(try_reinit_all_async_item(map, call.input[Pos], JoinAll(futs)[Pos]))

\* try_reinit_async(keys)
try_reinit_async(keys) ==
    /\ Ready("try_async")
    /\ Begin("try_reinit_async", "await", keys,
             [i \in Indices(keys) |->
                 IF Has(map, keys[i]) THEN Pending ELSE Done(Keyed(keys[i], None))],
             Present(map, keys, 1))
    /\ UNCHANGED map

\* The async block of try_reinit_async for a key the map holds.
try_reinit_async_fut(key, result) == Keyed(key, Some(result))

try_reinit_async_poll(i) ==
    /\ Running("try_reinit_async", i)
    /\ \E result \in TryFnInit(map[call.input[i]].args) :
           Finish(i, try_reinit_async_fut(call.input[i], result))

try_reinit_async_join ==
    /\ Joined("try_reinit_async")
    /\ ReturnIter

\* try_reinit_async's closure, had flattening turned a failure into None.
try_reinit_async_item_flattens_error(m, r) ==
    IF IsNone(r.value) \/ IsErr(Unwrap(r.value)) \/ ~Has(m, r.key)
    THEN [map |-> m, item |-> Keyed(r.key, None)]
    ELSE [map |-> ReplaceComponent(m, r.key, Unwrap(Unwrap(r.value))),
          item |-> Keyed(r.key, Some(Ok(m[r.key].component)))]

\* The closure over the joined results, r = Keyed { key, value: result } with
\* result an Option<Result<Comp, Error>>:
\* result.map(|r| r.map(|next| get_mut(&key).map(replace)))
\*       .transpose().map(Option::flatten), then transpose again.
try_reinit_async_item(m, r) ==
    IF IsNone(r.value) THEN [map |-> m, item |-> Keyed(r.key, None)]
    ELSE IF IsErr(Unwrap(r.value)) THEN [map |-> m, item |-> Keyed(r.key, Some(Unwrap(r.value)))]
    ELSE IF Has(m, r.key)
         THEN [map |-> ReplaceComponent(m, r.key, Unwrap(Unwrap(r.value))),
               item |-> Keyed(r.key, Some(Ok(m[r.key].component)))]
         ELSE [map |-> m, item |-> Keyed(r.key, None)]

try_reinit_async_next ==
    /\ HasNext("try_reinit_async")
    /\ YieldAsync(try_reinit_async_item(map, JoinAll(futs)[Pos]))

\* try_update_async(updates)
try_update_async(updates) ==
    /\ Ready("try_async")
    /\ Begin("try_update_async", "await", updates, AllPending(updates), AllStarted(updates))
    /\ UNCHANGED map

\* The async block of try_update_async for one pair; result is the factory's answer.
try_update_async_fut(key, args, result) == <<key, MapWithArgs(result, args)>>

\* try_update_async's future, had it inserted its entry as soon as the
\* factory answered Ok.
try_update_async_poll_inserts(i) ==
    /\ Running("try_update_async", i)
    /\ \E result \in TryFnInit(call.input[i][2]) :
           LET r == try_update_async_fut(call.input[i][1], call.input[i][2], result)
           IN  /\ futs' = [futs EXCEPT ![i] = Done(r)]
               /\ map' = IF IsOk(r[2]) THEN Insert(map, r[1], Unwrap(r[2])) ELSE map
    /\ completed' = Append(completed, i)
    /\ UNCHANGED <<reg, kind, call, started, out, ctor, before, ctor_calls, factory, seen>>

try_update_async_poll(i) ==
    /\ Running("try_update_async", i)
    /\ \E result \in TryFnInit(call.input[i][2]) :
           Finish(i, try_update_async_fut(call.input[i][1], call.input[i][2], result))

\* try_update_async, had it returned as soon as one of its futures was done.
try_update_async_join_first_done ==
    /\ call.op = "try_update_async"
    /\ call.phase = "await"
    /\ futs = << >> \/ \E i \in Indices(futs) : ~IsPending(futs[i])
    /\ ReturnIter

try_update_async_join ==
    /\ Joined("try_update_async")
    /\ ReturnIter

\* try_update_async's closure, had it kept the entry of a key the map
\* already holds (entry(key).or_insert(..)).
try_update_async_item_keeps_first(m, r) ==
    IF IsOk(r[2])
    THEN [map |-> IF Has(m, r[1]) THEN m ELSE Insert(m, r[1], Unwrap(r[2])),
          item |-> Keyed(r[1], Transpose(Ok(Get(m, r[1]))))]
    ELSE [map |-> m, item |-> Keyed(r[1], Transpose(r[2]))]

\* try_update_async's closure, had a failed pair taken its key's entry out
\* of the map.
try_update_async_item_evicts_failed(m, r) ==
    IF IsOk(r[2])
    THEN [map |-> Insert(m, r[1], Unwrap(r[2])),
          item |-> Keyed(r[1], Transpose(Ok(Get(m, r[1]))))]
    ELSE [map |-> [k \in DOMAIN m \ {r[1]} |-> m[k]], item |-> Keyed(r[1], Transpose(r[2]))]

\* The closure over the joined results, r = (key, result) with result a
\* Result<WithArgs, Error>.
try_update_async_item(m, r) ==
    IF IsOk(r[2])
    THEN [map |-> Insert(m, r[1], Unwrap(r[2])),
          item |-> Keyed(r[1], Transpose(Ok(Get(m, r[1]))))]
    ELSE [map |-> m, item |-> Keyed(r[1], Transpose(r[2]))]

try_update_async_next ==
    /\ HasNext("try_update_async")
    /\ YieldAsync(try_update_async_item(map, JoinAll(futs)[Pos]))

\* ------------------------------------------------------------- the caller
\* The caller lets go of the result (an iterator, exhausted or not, or the
\* manager just built), which ends the borrow.
Release ==
    /\ call.phase \in {"iter", "done"}
    /\ reg = "built"
    /\ call' = Idle
    /\ futs' = << >>
    /\ started' = << >>
    /\ completed' = << >>
    /\ out' = << >>
    /\ before' = EmptyMap
    /\ ctor_calls' = IF call.phase = "done" THEN ctor_calls ELSE None
    /\ UNCHANGED <<reg, kind, map, ctor, factory, seen>>

\* components_mut().get_mut(key).component = Counter(999)
components_mut_component(key) ==
    /\ reg = "built"
    /\ call.phase = "idle"
    /\ Has(map, key)
    /\ map' = [map EXCEPT ![key].component = Tampered]
    /\ seen' = Unseen
    /\ UNCHANGED <<reg, kind, call, futs, started, completed, out, ctor, before, ctor_calls, factory>>

\* components_mut().get_mut(key).args.should_fail = true
components_mut_args(key) ==
    /\ reg = "built"
    /\ call.phase = "idle"
    /\ Fallible(kind)
    /\ Has(map, key)
    /\ ~map[key].args.should_fail
    /\ map' = [map EXCEPT ![key].args.should_fail = TRUE]
    /\ seen' = Unseen
    /\ UNCHANGED <<reg, kind, call, futs, started, completed, out, ctor, before, ctor_calls, factory>>

\* components(), had it moved the map out to the caller (mem::take).
components_takes_map ==
    /\ reg = "built"
    /\ call.phase = "idle"
    /\ seen' = [seen EXCEPT !.components = Some(map)]
    /\ map' = EmptyMap
    /\ UNCHANGED <<reg, kind, call, futs, started, completed, out, ctor, before, ctor_calls, factory>>

\* components(): a shared borrow of the map.
components ==
    /\ reg = "built"
    /\ call.phase = "idle"
    /\ seen' = [seen EXCEPT !.components = Some(map)]
    /\ UNCHANGED <<reg, kind, map, call, futs, started, completed, out, ctor, before, ctor_calls, factory>>

\* fn_init(): a shared borrow of the factory.
fn_init ==
    /\ reg = "built"
    /\ call.phase = "idle"
    /\ seen' = [seen EXCEPT !.fn_init = Some(factory)]
    /\ UNCHANGED <<reg, kind, map, call, futs, started, completed, out, ctor, before, ctor_calls, factory>>

Next ==
    \/ \E entries \in SeqsUpTo(Keys \X Args, MaxLen) : init(entries)
    \/ reinit_all
    \/ reinit_all_next
    \/ \E keys \in SeqsUpTo(Keys, MaxLen) : reinit(keys)
    \/ reinit_next
    \/ \E updates \in SeqsUpTo(Keys \X Args, MaxLen) : update(updates)
    \/ update_next
    \/ \E entries \in SeqsUpTo(Keys \X FailArgs, MaxLen) : try_init(entries)
    \/ try_reinit_all
    \/ try_reinit_all_next
    \/ \E keys \in SeqsUpTo(Keys, MaxLen) : try_reinit(keys)
    \/ try_reinit_next
    \/ \E updates \in SeqsUpTo(Keys \X FailArgs, MaxLen) : try_update(updates)
    \/ try_update_next
    \/ \E entries \in SeqsUpTo(Keys \X Args, MaxLen) : init_async(entries)
    \/ \E i \in 1..MaxLen : init_async_poll(i)
    \/ init_async_join
    \/ reinit_all_async
    \/ \E i \in 1..NumKeys : reinit_all_async_poll(i)
    \/ reinit_all_async_join
    \/ reinit_all_async_next
    \/ \E keys \in SeqsUpTo(Keys, MaxLen) : reinit_async(keys)
    \/ \E i \in 1..MaxLen : reinit_async_poll(i)
    \/ reinit_async_join
    \/ reinit_async_next
    \/ \E updates \in SeqsUpTo(Keys \X Args, MaxLen) : update_async(updates)
    \/ \E i \in 1..MaxLen : update_async_poll(i)
    \/ update_async_join
    \/ update_async_next
    \/ \E entries \in SeqsUpTo(Keys \X FailArgs, MaxLen) : try_init_async(entries)
    \/ \E i \in 1..MaxLen : try_init_async_poll(i)
    \/ try_init_async_join
    \/ try_reinit_all_async
    \/ \E i \in 1..NumKeys : try_reinit_all_async_poll(i)
    \/ try_reinit_all_async_join
    \/ try_reinit_all_async_next
    \/ \E keys \in SeqsUpTo(Keys, MaxLen) : try_reinit_async(keys)
    \/ \E i \in 1..MaxLen : try_reinit_async_poll(i)
    \/ try_reinit_async_join
    \/ try_reinit_async_next
    \/ \E updates \in SeqsUpTo(Keys \X FailArgs, MaxLen) : try_update_async(updates)
    \/ \E i \in 1..MaxLen : try_update_async_poll(i)
    \/ try_update_async_join
    \/ try_update_async_next
    \/ Release
    \/ \E key \in Keys : components_mut_component(key)
    \/ \E key \in Keys : components_mut_args(key)
    \/ components
    \/ fn_init

Spec == Init /\ [][Next]_vars

\* The same manager, whichever of the tests' factories the caller gives it.
FactoryInit == NoManager /\ factory \in Factories
FactorySpec == FactoryInit /\ [][Next]_vars

\* ------------------------------------------------------------- properties
TryReinitAllOps == {"try_reinit_all", "try_reinit_all_async"}
TryReinitOps == {"try_reinit", "try_reinit_async"}
TryUpdateOps == {"try_update", "try_update_async"}
ReinitAllOps == {"reinit_all", "reinit_all_async"} \cup TryReinitAllOps
ReinitOps == {"reinit", "reinit_async"} \cup TryReinitOps
UpdateOps == {"update", "update_async"} \cup TryUpdateOps
TryInitOps == {"try_init", "try_init_async"}
InitOps == {"init", "init_async"} \cup TryInitOps

\* The key of input element i of the call in progress.
KeyAt(i) == IF call.op \in UpdateOps \cup InitOps THEN call.input[i][1] ELSE call.input[i]
\* The args given with input element i of an update or a construction.
ArgsAt(i) == call.input[i][2]

\* The iterator of the call in progress has handed out all its results.
Exhausted == call.phase = "iter" /\ Len(out) = Len(call.input)

Max(S) == CHOOSE x \in S : \A y \in S : y <= x

\* What the factory answered for input position i of the call in progress,
\* read from futs and brought to one shape for all variants: None if it was
\* not invoked for i (or has not answered yet), else Some(Ok(component)) or
\* Some(Err(e)).
Answer(i) ==
    IF i \notin Indices(futs) \/ ~IsDone(futs[i]) THEN None
    ELSE LET o == Output(futs[i])
         IN  CASE call.op \in {"init", "reinit_all", "reinit", "update", "reinit_all_async"} ->
                      Some(Ok(o))
               [] call.op \in {"init_async", "update_async"} -> Some(Ok(o[2].component))
               [] call.op = "reinit_async" ->
                      IF IsNone(o.value) THEN None ELSE Some(Ok(Unwrap(o.value)))
               [] call.op \in {"try_init", "try_reinit_all", "try_reinit", "try_update",
                               "try_reinit_all_async"} -> Some(o)
               [] call.op \in {"try_init_async", "try_update_async"} ->
                      IF IsOk(o[2]) THEN Some(Ok(Unwrap(o[2]).component)) ELSE Some(o[2])
               [] call.op = "try_reinit_async" -> o.value
Succeeded(i) == IsSome(Answer(i)) /\ IsOk(Unwrap(Answer(i)))
Failed(i) == IsSome(Answer(i)) /\ IsErr(Unwrap(Answer(i)))
\* The component a successful invocation for position i produced.
NewComponent(i) == Unwrap(Unwrap(Answer(i)))

\* The positions among the first n whose key is k and whose invocation succeeded.
Successes(k, n) == {j \in 1..n : KeyAt(j) = k /\ Succeeded(j)}

\* A reinit-family call: the component key k holds once the first n input
\* positions are processed, if only successful invocations replace it.
ComponentAfter(k, n) ==
    IF Successes(k, n) = {} THEN before[k].component
    ELSE NewComponent(Max(Successes(k, n)))

\* An update-family call: the entry (Option<WithArgs>) key k has once the
\* first n input positions are processed, if only successful invocations
\* insert.
EntryAfter(k, n) ==
    IF Successes(k, n) = {} THEN Get(before, k)
    ELSE LET j == Max(Successes(k, n)) IN Some(WithArgs(NewComponent(j), ArgsAt(j)))

\* C1: in try_reinit_all, try_reinit and their async variants, for a processed
\* key the map holds: if the factory succeeded on the stored args, the stored
\* component becomes the new one and the result is Ok of the component stored
\* until then; if it failed, the key's pair stays as it was in both fields and
\* the result is the factory's error, not a previous value.
C1_PerKeyOutcome ==
    (call.op \in TryReinitAllOps \cup TryReinitOps /\ call.phase = "iter") =>
        \A i \in 1..Len(out) :
            LET key == KeyAt(i)
                res == IF call.op \in TryReinitOps THEN Unwrap(out[i].value) ELSE out[i].value
            IN  Has(before, key) =>
                    /\ out[i].key = key
                    /\ call.op \in TryReinitOps => IsSome(out[i].value)
                    /\ Succeeded(i) \/ Failed(i)
                    /\ Succeeded(i) => res = Ok(ComponentAfter(key, i - 1))
                    /\ Failed(i) => res = Unwrap(Answer(i))
                    /\ Has(map, key)
                    /\ map[key] = WithArgs(ComponentAfter(key, Len(out)), before[key].args)

\* A try_reinit_all_async over two entries, one failing and left as it was,
\* one succeeding whose tampered component was handed back and replaced.
C1_Witness ==
    /\ call.op = "try_reinit_all_async"
    /\ Len(out) = 2
    /\ \E i, j \in 1..2 :
          /\ IsErr(out[i].value)
          /\ map[out[i].key] = before[out[i].key]
          /\ out[j].value = Ok(Tampered)
          /\ map[out[j].key].component = Produce(map[out[j].key].args)

\* C2: try_init and try_init_async, given an input with at least one pair
\* whose factory invocation fails, return an error and produce no registry,
\* even when other pairs succeeded.
C2_ConstructionAtomic ==
    (/\ call.op \in TryInitOps
     /\ call.phase = "done"
     /\ \E i \in Indices(call.input) : Failed(i))
    => (reg = "failed" /\ IsErr(ctor) /\ map = EmptyMap)

\* try_init_async returned an error although its first pair succeeded.
C2_Witness ==
    /\ call.op = "try_init_async"
    /\ call.phase = "done"
    /\ Len(futs) = 2
    /\ Succeeded(1)
    /\ Failed(2)
    /\ reg = "failed"

\* C3: in try_update and try_update_async a pair whose factory invocation
\* fails causes no map mutation for its key (an absent key stays absent, a
\* present key keeps the pair it had, the map size does not grow by it) and
\* its result is Some(Err(e)), neither None nor Some(Ok(previous)).
C3_FailedUpdateNoMutation ==
    (call.op \in TryUpdateOps /\ call.phase = "iter") =>
        /\ \A i \in 1..Len(out) :
               Failed(i) =>
                   /\ out[i] = Keyed(KeyAt(i), Some(Unwrap(Answer(i))))
                   /\ Get(map, KeyAt(i)) = EntryAfter(KeyAt(i), Len(out))
        /\ Cardinality(DOMAIN map) =
               Cardinality(DOMAIN before \cup {KeyAt(i) : i \in {j \in 1..Len(out) : Succeeded(j)}})

\* A try_update of two failing pairs, one for an absent key and one for a
\* present key, both reported as errors.
C3_Witness ==
    /\ call.op = "try_update"
    /\ Len(out) = 2
    /\ \A i \in 1..2 : IsSome(out[i].value) /\ IsErr(Unwrap(out[i].value))
    /\ ~Has(map, out[1].key)
    /\ Has(map, out[2].key)
    /\ map = before

\* One next() of whichever iterator is being consumed.
IterNext ==
    \/ reinit_all_next \/ reinit_next \/ update_next
    \/ try_reinit_all_next \/ try_reinit_next \/ try_update_next
    \/ reinit_all_async_next \/ reinit_async_next \/ update_async_next
    \/ try_reinit_all_async_next \/ try_reinit_async_next \/ try_update_async_next

\* What the closure of the call in progress does with input position i on
\* the map m, given what the factory answered for i: [map, item].
ItemAt(m, i) ==
    LET o == Output(futs[i])
    IN  CASE call.op = "reinit_all" -> reinit_all_item(m, call.input[i])
          [] call.op = "reinit" -> reinit_item(m, call.input[i])
          [] call.op = "update" -> update_item(m, call.input[i][1], call.input[i][2])
          [] call.op = "try_reinit_all" -> try_reinit_all_item(m, call.input[i], o)
          [] call.op = "try_reinit" ->
                 IF Has(m, call.input[i]) THEN try_reinit_item(m, call.input[i], o)
                 ELSE [map |-> m, item |-> Keyed(call.input[i], None)]
          [] call.op = "try_update" -> try_update_item(m, call.input[i][1], call.input[i][2], o)
          [] call.op = "reinit_all_async" -> reinit_all_async_item(m, call.input[i], o)
          [] call.op = "reinit_async" -> reinit_async_item(m, o)
          [] call.op = "update_async" -> update_async_item(m, o)
          [] call.op = "try_reinit_all_async" -> try_reinit_all_async_item(m, call.input[i], o)
          [] call.op = "try_reinit_async" -> try_reinit_async_item(m, o)
          [] call.op = "try_update_async" -> try_update_async_item(m, o)

\* The call in progress run on the positions P only, among those consumed
\* so far, from r = [map, out] and position i on.
RECURSIVE Replay(_, _, _)
Replay(r, P, i) ==
    IF i > Len(out) THEN r
    ELSE IF i \in P
         THEN LET x == ItemAt(r.map, i)
              IN  Replay([map |-> x.map, out |-> Append(r.out, x.item)], P, i + 1)
         ELSE Replay(r, P, i + 1)

\* The results handed out for the positions P, in order.
RECURSIVE Pick(_, _)
Pick(P, i) ==
    IF i > Len(out) THEN << >>
    ELSE (IF i \in P THEN <<out[i]>> ELSE << >>) \o Pick(P, i + 1)

FallibleOps == TryReinitAllOps \cup TryReinitOps \cup TryUpdateOps

\* C4: per-key isolation.  In try_reinit_all, try_reinit, try_update and
\* their async variants the iterator goes on after a failure (every input
\* element gets its result, under its key), and the map and the results of
\* the elements that did not fail are exactly those of the same call without
\* the failing elements.
C4_PerKeyIsolation ==
    (call.op \in FallibleOps /\ call.phase = "iter") =>
        LET ok == {i \in 1..Len(out) : ~Failed(i)}
            alone == Replay([map |-> before, out |-> << >>], ok, 1)
        IN  /\ Len(out) < Len(call.input) => ENABLED IterNext
            /\ \A i \in 1..Len(out) : out[i].key = KeyAt(i)
            /\ map = alone.map
            /\ Pick(ok, 1) = alone.out

\* A try_update_async of two pairs: the first failed and its key stayed
\* absent, the second, consumed after it, was inserted.
C4_Witness ==
    /\ call.op = "try_update_async"
    /\ Len(out) = 2
    /\ Failed(1)
    /\ Succeeded(2)
    /\ KeyAt(1) # KeyAt(2)
    /\ ~Has(map, KeyAt(1))
    /\ ~Has(before, KeyAt(2))
    /\ Has(map, KeyAt(2))

\* C5 as stated: in every reachable state every stored component is what
\* the factory produces from the stored args.
C5_AlwaysInSync ==
    \A k \in DOMAIN map : map[k].component = Produce(map[k].args)

\* C5, amended: every step of construction, reinit and update leaves each
\* entry either exactly as it was (so a failed attempt changes neither
\* field) or with the component the factory produces from the stored args;
\* only a write through components_mut can put the two out of sync.
C5_OnlyAccessorUnsyncs ==
    [][\/ \E key \in Keys : components_mut_component(key) \/ components_mut_args(key)
       \/ \A k \in DOMAIN map' :
              \/ Has(map, k) /\ map'[k] = map[k]
              \/ map'[k].component = Produce(map'[k].args)]_vars

\* A try_reinit of two entries written through components_mut: the one
\* whose re-creation failed still holds the written component, the other was
\* re-created from its args.
C5_Witness ==
    /\ call.op = "try_reinit"
    /\ Len(out) = 2
    /\ \E i, j \in 1..2 :
          /\ Failed(i)
          /\ map[KeyAt(i)].component = Tampered
          /\ Succeeded(j)
          /\ before[KeyAt(j)].component = Tampered
          /\ map[KeyAt(j)].component = Produce(map[KeyAt(j)].args)

\* C6: update (and a succeeding try_update, sync or async) on a key the map
\* lacks reports no previous value and grows the map by one entry; on a key
\* the map holds it reports the prior (args, component) pair and leaves the
\* size unchanged; either way the key then maps to (new args, factory(new args)).
C6_UpdatePreviousValue ==
    (call.op \in UpdateOps /\ call.phase = "iter") =>
        LET n == Len(out)
            fresh == {i \in 1..n : Succeeded(i) /\ IsNone(EntryAfter(KeyAt(i), i - 1))}
        IN  /\ \A i \in 1..n :
                   Succeeded(i) =>
                       LET prev == EntryAfter(KeyAt(i), i - 1)
                       IN  /\ out[i].key = KeyAt(i)
                           /\ out[i].value = IF IsNone(prev) THEN None
                                             ELSE IF Fallible(kind) THEN Some(Ok(Unwrap(prev)))
                                             ELSE prev
                           /\ i = Max(Successes(KeyAt(i), n)) =>
                                  /\ Has(map, KeyAt(i))
                                  /\ map[KeyAt(i)] = WithArgs(Produce(ArgsAt(i)), ArgsAt(i))
            /\ Cardinality(DOMAIN map) = Cardinality(DOMAIN before) + Cardinality(fresh)

\* An update of a stored key with new args, then of a new key: the first
\* reported the prior pair, the second nothing, and the map grew by one.
C6_Witness ==
    /\ call.op = "update"
    /\ Len(out) = 2
    /\ Has(before, KeyAt(1))
    /\ ArgsAt(1) # before[KeyAt(1)].args
    /\ out[1].value = Some(before[KeyAt(1)])
    /\ ~Has(before, KeyAt(2))
    /\ out[2].value = None
    /\ Cardinality(DOMAIN map) = Cardinality(DOMAIN before) + 1

\* C7: reinit / try_reinit (sync and async) on a key the map lacks hand out
\* one result for it, None, never run the factory for it, and leave the map
\* as the same call without that key would.
C7_AbsentKey ==
    (call.op \in ReinitOps /\ call.phase \in {"await", "iter"}) =>
        LET present == {i \in 1..Len(out) : Has(before, KeyAt(i))}
        IN  /\ \A i \in Indices(call.input) :
                   ~Has(before, KeyAt(i)) =>
                       /\ \A j \in Indices(started) : started[j] # i
                       /\ IsNone(Answer(i))
                       /\ i <= Len(out) => out[i] = Keyed(KeyAt(i), None)
            /\ DOMAIN map = DOMAIN before
            /\ map = Replay([map |-> before, out |-> << >>], present, 1).map
            /\ present = {} => map = before

\* A reinit_async of an absent key and a stored one: None for the first, no
\* factory run for it, and the stored one re-created.
C7_Witness ==
    /\ call.op = "reinit_async"
    /\ Len(out) = 2
    /\ ~Has(before, KeyAt(1))
    /\ out[1] = Keyed(KeyAt(1), None)
    /\ started = <<2>>
    /\ out[2].value = Some(Tampered)
    /\ ~Has(map, KeyAt(1))

\* C8: a fully consumed reinit_all / reinit_all_async has handed out one
\* result per stored entry, each stored key once, with the component stored
\* before the call, and every stored component is now the factory applied
\* to the entry's stored args.
C8_ReinitAll ==
    (call.op \in {"reinit_all", "reinit_all_async"} /\ Exhausted) =>
        /\ Len(out) = Cardinality(DOMAIN before)
        /\ DOMAIN map = DOMAIN before
        /\ \A k \in DOMAIN before :
               /\ Cardinality({i \in 1..Len(out) : out[i].key = k}) = 1
               /\ \A i \in 1..Len(out) : out[i].key = k => out[i].value = before[k].component
               /\ map[k] = WithArgs(Produce(before[k].args), before[k].args)

\* A reinit_all_async over two entries, one of them written through
\* components_mut, fully consumed.
C8_Witness ==
    /\ call.op = "reinit_all_async"
    /\ Exhausted
    /\ Len(out) = 2
    /\ \E i \in 1..2 : out[i].value = Tampered
    /\ \A k \in DOMAIN map : map[k].component # Tampered

\* Input positions carry pairwise distinct keys.
DistinctKeys == \A i, j \in Indices(call.input) : i # j => KeyAt(i) # KeyAt(j)

\* C9: init and init_async always succeed, and a successful construction of
\* any variant over pairwise distinct keys yields a map whose key set is the
\* input keys, each mapped to (its args, factory(its args)); an empty input
\* yields an empty map.
C9_Construction ==
    (call.op \in InitOps /\ call.phase = "done") =>
        /\ call.op \in {"init", "init_async"} => reg = "built" /\ IsOk(ctor)
        /\ (reg = "built" /\ DistinctKeys) =>
               /\ DOMAIN map = {KeyAt(i) : i \in Indices(call.input)}
               /\ \A i \in Indices(call.input) :
                      map[KeyAt(i)] = WithArgs(Produce(ArgsAt(i)), ArgsAt(i))
        /\ (reg = "built" /\ call.input = << >>) => map = EmptyMap

\* An init_async of two distinct keys with different args, the second
\* future finishing first.
C9_Witness ==
    /\ call.op = "init_async"
    /\ call.phase = "done"
    /\ reg = "built"
    /\ Len(call.input) = 2
    /\ DistinctKeys
    /\ ArgsAt(1) # ArgsAt(2)
    /\ completed = <<2, 1>>
    /\ Cardinality(DOMAIN map) = 2

\* C10: in every variant of reinit and update the results come one per
\* input element, the i-th under the i-th input key, whatever the order in
\* which the futures of an async variant finished.
C10_ResultOrder ==
    (call.op \in ReinitOps \cup UpdateOps /\ call.phase = "iter") =>
        /\ Len(out) <= Len(call.input)
        /\ Len(out) < Len(call.input) => ENABLED IterNext
        /\ \A i \in 1..Len(out) : out[i].key = KeyAt(i)

\* A fully consumed try_update_async of two different keys whose second
\* future finished first.
C10_Witness ==
    /\ call.op = "try_update_async"
    /\ Exhausted
    /\ Len(out) = 2
    /\ KeyAt(1) # KeyAt(2)
    /\ completed = <<2, 1>>
    /\ out[1].key = KeyAt(1)
    /\ out[2].key = KeyAt(2)

\* The first input position whose factory invocation failed, or 0.
FirstFailed ==
    IF \E i \in Indices(call.input) : Failed(i)
    THEN CHOOSE i \in Indices(call.input) : Failed(i) /\ \A j \in 1..(i - 1) : ~Failed(j)
    ELSE 0

\* C11: when try_init or try_init_async fails, the error returned is the
\* error of the first failing pair in input order, whatever the order in
\* which the invocations of try_init_async finished.
C11_FirstErrorInInputOrder ==
    (call.op \in TryInitOps /\ call.phase = "done") =>
        /\ reg = "failed" <=> FirstFailed # 0
        /\ reg = "failed" =>
               /\ ctor = Unwrap(Answer(FirstFailed))
               /\ ctor = Err(TestError(ArgsAt(FirstFailed)))
               /\ \A j \in 1..(FirstFailed - 1) : Succeeded(j)

\* A try_init_async of two pairs that both failed with different errors,
\* the second failing first in time: the error returned is the first pair's.
C11_Witness ==
    /\ call.op = "try_init_async"
    /\ call.phase = "done"
    /\ Len(call.input) = 2
    /\ Failed(1)
    /\ Failed(2)
    /\ completed = <<2, 1>>
    /\ TestError(ArgsAt(1)) # TestError(ArgsAt(2))
    /\ ctor = Err(TestError(ArgsAt(1)))

AsyncIterOps ==
    {"reinit_all_async", "reinit_async", "update_async",
     "try_reinit_all_async", "try_reinit_async", "try_update_async"}

\* The input positions of the call in progress for which there is a factory
\* invocation to make: all of them, but for a targeted reinit only those
\* whose key the map holds.
Invoked ==
    {i \in Indices(call.input) : call.op \in ReinitOps => Has(before, KeyAt(i))}

\* The elements of a sequence.
Range(s) == {s[i] : i \in Indices(s)}

\* C12: in the async reinit_all, reinit and update variants every factory
\* invocation of the call is started before any result is consumed, and no
\* map entry is replaced or inserted before every invocation of the call
\* has completed.
C12_AllCompleteBeforeReplace ==
    (call.op \in AsyncIterOps) =>
        /\ Range(started) = Invoked
        /\ Len(started) = Cardinality(Invoked)
        /\ call.phase = "await" => map = before /\ out = << >>
        /\ (map # before \/ out # << >> \/ call.phase = "iter") =>
               /\ Range(completed) = Invoked
               /\ \A i \in Indices(futs) : IsDone(futs[i])

\* A try_update_async of two pairs: the second finished first, and with
\* both finished the first result was consumed and its entry inserted.
C12_Witness ==
    /\ call.op = "try_update_async"
    /\ call.phase = "iter"
    /\ completed = <<2, 1>>
    /\ Len(out) = 1
    /\ Succeeded(1)
    /\ map # before

\* C13: a targeted reinit (reinit, try_reinit, sync or async) on a key list
\* leaves the entry of every stored key that is not in the list unchanged,
\* args and component.
C13_ReinitFrame ==
    (call.op \in ReinitOps /\ call.phase \in {"await", "iter"}) =>
        \A k \in DOMAIN before :
            k \notin {KeyAt(i) : i \in Indices(call.input)} =>
                Has(map, k) /\ map[k] = before[k]

\* A fully consumed reinit of one of two stored keys, both written through
\* components_mut before: the listed one was re-created, the other still
\* holds the written component.
C13_Witness ==
    /\ call.op = "reinit"
    /\ Exhausted
    /\ call.input = <<1>>
    /\ DOMAIN before = {1, 2}
    /\ before[1].component = Tampered
    /\ before[2].component = Tampered
    /\ map[1].component = Produce(map[1].args)
    /\ map[2] = before[2]

\* C14: no operation of the reinit family (reinit_all, reinit, fallible and
\* async variants) changes an entry's stored args or the key set of the
\* map; every factory invocation is given the entry's stored args, and
\* whether it succeeds or fails only the component field may change.
C14_ReinitKeepsArgs ==
    (call.op \in ReinitAllOps \cup ReinitOps /\ call.phase \in {"await", "iter"}) =>
        /\ DOMAIN map = DOMAIN before
        /\ \A k \in DOMAIN map : map[k].args = before[k].args
        /\ \A i \in Indices(call.input) :
               /\ Succeeded(i) => NewComponent(i) = Produce(before[KeyAt(i)].args)
               /\ Failed(i) =>
                      /\ before[KeyAt(i)].args.should_fail
                      /\ Unwrap(Answer(i)) = Err(TestError(before[KeyAt(i)].args))

\* A fully consumed try_reinit_all_async over two entries with different
\* args: one invocation failed, the other replaced the component, and both
\* entries hold the args they had.
C14_Witness ==
    /\ call.op = "try_reinit_all_async"
    /\ Exhausted
    /\ Len(out) = 2
    /\ before[1].args # before[2].args
    /\ \E i, j \in 1..2 : Failed(i) /\ Succeeded(j)
    /\ \E k \in DOMAIN map : map[k].component # before[k].component
    /\ \A k \in DOMAIN map : map[k].args = before[k].args

\* C15: in try_reinit and try_reinit_async the value reported for a key is
\* None exactly when the map lacks the key, Some(Err(e)) exactly when the
\* map holds it and the factory failed with e, and Some(Ok(previous
\* component)) exactly when the map holds it and the factory succeeded;
\* the three outcomes exclude each other.
C15_ThreeOutcomes ==
    (call.op \in TryReinitOps /\ call.phase = "iter") =>
        \A i \in 1..Len(out) :
            LET key == KeyAt(i)
                v == out[i].value
                absent == IsNone(v)
                failed == IsSome(v) /\ IsErr(Unwrap(v))
                done == IsSome(v) /\ IsOk(Unwrap(v))
            IN  /\ out[i].key = key
                /\ absent <=> ~Has(before, key)
                /\ failed <=> Has(before, key) /\ Failed(i)
                /\ failed => v = Some(Err(TestError(before[key].args)))
                /\ done <=> Has(before, key) /\ Succeeded(i)
                /\ done => v = Some(Ok(ComponentAfter(key, i - 1)))
                /\ Cardinality({x \in {<<1, absent>>, <<2, failed>>, <<3, done>>} : x[2]}) = 1

\* A fully consumed try_reinit_async of an absent key and of a stored key
\* whose re-creation failed: None for the one, Some(Err) for the other.
C15_Witness ==
    /\ call.op = "try_reinit_async"
    /\ call.phase = "iter"
    /\ Len(out) = 2
    /\ \E i, j \in 1..2 :
          /\ IsNone(out[i].value)
          /\ IsSome(out[j].value)
          /\ IsErr(Unwrap(out[j].value))
    /\ \E k \in DOMAIN before : before[k].component = Tampered

\* The last input position carrying the key of position i.
LastOf(i) == Max({j \in Indices(call.input) : KeyAt(j) = KeyAt(i)})

\* C16: when the construction input holds a key more than once, the map
\* built holds one entry for it, made from its last occurrence in input
\* order, whatever the order in which the invocations of init_async or
\* try_init_async finished.
C16_LastWriteWins ==
    (call.op \in InitOps /\ call.phase = "done" /\ reg = "built") =>
        /\ DOMAIN map = {KeyAt(i) : i \in Indices(call.input)}
        /\ \A i \in Indices(call.input) :
               map[KeyAt(i)] = WithArgs(Produce(ArgsAt(LastOf(i))), ArgsAt(LastOf(i)))

\* An init_async of one key given twice with different args, the second
\* invocation finishing first: the entry is the second pair's.
C16_Witness ==
    /\ call.op = "init_async"
    /\ call.phase = "done"
    /\ Len(call.input) = 2
    /\ KeyAt(1) = KeyAt(2)
    /\ ArgsAt(1) # ArgsAt(2)
    /\ completed = <<2, 1>>
    /\ DOMAIN map = {KeyAt(1)}
    /\ map[KeyAt(1)].args = ArgsAt(2)

\* C18: in try_init_async a failing invocation neither cancels nor skips
\* the others: every pair's invocation is started, and all of them have run
\* to completion before construction returns its result, error or registry.
C18_NoCancellation ==
    (call.op = "try_init_async") =>
        /\ Range(started) = Indices(call.input)
        /\ \A i \in Indices(futs) : IsPending(futs[i]) \/ IsDone(futs[i])
        /\ call.phase = "await" => reg = "none" /\ IsNone(ctor)
        /\ call.phase = "done" =>
               /\ ~IsNone(ctor)
               /\ Range(completed) = Indices(call.input)
               /\ \A i \in Indices(call.input) : Succeeded(i) \/ Failed(i)

\* A try_init_async of two pairs whose first invocation failed before the
\* second finished: the second still ran to completion, successfully, and
\* construction returned the error.
C18_Witness ==
    /\ call.op = "try_init_async"
    /\ call.phase = "done"
    /\ completed = <<1, 2>>
    /\ Failed(1)
    /\ Succeeded(2)
    /\ IsErr(ctor)

\* What the closure of the bulk operation of the same variant (reinit_all
\* for reinit, and so on) does on the map m for the key of input position i
\* of the targeted reinit in progress, the factory answering as it did.
BulkItemAt(m, i) ==
    CASE call.op = "reinit" -> reinit_all_item(m, KeyAt(i))
      [] call.op = "try_reinit" -> try_reinit_all_item(m, KeyAt(i), Unwrap(Answer(i)))
      [] call.op = "reinit_async" -> reinit_all_async_item(m, KeyAt(i), NewComponent(i))
      [] call.op = "try_reinit_async" ->
             try_reinit_all_async_item(m, KeyAt(i), Unwrap(Answer(i)))

\* The bulk operation run over the keys consumed so far, from r = [map, out]
\* and position i on.
RECURSIVE Bulk(_, _)
Bulk(r, i) ==
    IF i > Len(out) THEN r
    ELSE LET x == BulkItemAt(r.map, i)
         IN  Bulk([map |-> x.map, out |-> Append(r.out, x.item)], i + 1)

\* C19: a targeted reinit (reinit, try_reinit, sync or async) given every
\* stored key once does what the bulk reinit of the same variant does: the
\* same map results, and the value reported for each key is the bulk one
\* wrapped as present (Some).
C19_TargetedAsBulk ==
    (call.op \in ReinitOps /\ call.phase = "iter" /\ call.input \in Orders(DOMAIN before)) =>
        LET bulk == Bulk([map |-> before, out |-> << >>], 1)
        IN  /\ map = bulk.map
            /\ \A i \in 1..Len(out) :
                   out[i] = Keyed(bulk.out[i].key, Some(bulk.out[i].value))

\* A fully consumed try_reinit of the two stored keys, one re-creation
\* failing, the other replacing a component written through components_mut.
C19_Witness ==
    /\ call.op = "try_reinit"
    /\ Exhausted
    /\ Len(call.input) = 2
    /\ call.input \in Orders(DOMAIN before)
    /\ \E i, j \in 1..2 :
          /\ Failed(i)
          /\ Succeeded(j)
          /\ out[j].value = Some(Ok(Tampered))

\* What the closure of the sync operation matching the async operation op
\* does on the map m with the input element x.
SyncItem(op, m, x) ==
    CASE op = "reinit_all_async" -> reinit_all_item(m, x)
      [] op = "reinit_async" -> reinit_item(m, x)
      [] op = "update_async" -> update_item(m, x[1], x[2])

\* The sync operation matching op, consumed up to element n of the input
\* inp, from r = [map, out] and element i on.
RECURSIVE SyncRun(_, _, _, _, _)
SyncRun(op, r, inp, i, n) ==
    IF i > n THEN r
    ELSE LET x == SyncItem(op, r.map, inp[i])
         IN  SyncRun(op, [map |-> x.map, out |-> Append(r.out, x.item)], inp, i + 1, n)

\* The map init builds from entries.
SyncInit(entries) ==
    Collect([i \in Indices(entries) |->
                <<entries[i][1], WithArgs(FnInit(entries[i][2]), entries[i][2])>>])

InfallibleAsyncOps == {"reinit_all_async", "reinit_async", "update_async"}

\* C20 as stated: the key-aware async variants and the key-oblivious sync
\* ones yield, operation for operation, equal maps and equal result
\* sequences; for reinit_all the sync manager may walk its own map in any
\* order.
C20_SameSequences ==
    (call.op \in InfallibleAsyncOps /\ Exhausted) =>
        \A inp \in (IF call.op = "reinit_all_async" THEN Orders(DOMAIN before) ELSE {call.input}) :
            SyncRun(call.op, [map |-> before, out |-> << >>], inp, 1, Len(inp)) =
                [map |-> map, out |-> out]

\* C20, amended: init_async builds the map init builds; reinit_async and
\* update_async yield the maps and result sequences of reinit and update,
\* element for element; reinit_all_async yields the map of reinit_all and
\* the same results key for key, in the same sequence when both maps are
\* walked in the same order.  All this for every completion order.
C20_SameSemantics ==
    /\ (call.op \in {"init", "init_async"} /\ call.phase = "done") => map = SyncInit(call.input)
    /\ (call.op \in InfallibleAsyncOps /\ call.phase = "iter") =>
           SyncRun(call.op, [map |-> before, out |-> << >>], call.input, 1, Len(out)) =
               [map |-> map, out |-> out]
    /\ (call.op = "reinit_all_async" /\ Exhausted) =>
           \A order \in Orders(DOMAIN before) :
               LET s == SyncRun(call.op, [map |-> before, out |-> << >>], order, 1, Len(order))
               IN  s.map = map /\ Range(s.out) = Range(out)

\* A fully consumed reinit_all_async over two entries holding different
\* components, the second invocation finishing first: a reinit_all walking
\* its map the other way round reports the same results in another sequence.
C20_Witness ==
    /\ call.op = "reinit_all_async"
    /\ Exhausted
    /\ Len(out) = 2
    /\ completed = <<2, 1>>
    /\ out[1].value # out[2].value
    /\ map # before
    /\ \E order \in Orders(DOMAIN before) :
           SyncRun(call.op, [map |-> before, out |-> << >>], order, 1, 2).out = <<out[2], out[1]>>

\* The factory was invoked exactly once for every input position of the
\* call in progress, and every invocation has returned.
OncePerPosition ==
    /\ Len(started) = Len(call.input)
    /\ Range(started) = Indices(call.input)
    /\ Len(completed) = Len(call.input)
    /\ Range(completed) = Indices(call.input)

\* A fully consumed reinit_all or reinit_all_async that is the first
\* operation after init / init_async.
ReinitAllAfterInit ==
    /\ call.op \in {"reinit_all", "reinit_all_async"}
    /\ Exhausted
    /\ IsSome(ctor_calls)

\* C17 as stated: infallible construction invokes the factory once per
\* input pair, a fully consumed reinit_all / reinit_all_async once per
\* stored entry, and so init over n pairs followed by reinit_all makes 2n
\* invocations.
C17_TwiceTheInput ==
    /\ (call.op \in {"init", "init_async"} /\ call.phase = "done") =>
           OncePerPosition /\ ctor_calls = Some(Len(call.input))
    /\ (call.op \in {"reinit_all", "reinit_all_async"} /\ Exhausted) =>
           OncePerPosition /\ Len(started) = Cardinality(DOMAIN before)
    /\ ReinitAllAfterInit => Unwrap(ctor_calls) + Len(started) = 2 * Unwrap(ctor_calls)

\* C17, amended: infallible construction invokes the factory once per input
\* pair, a fully consumed reinit_all / reinit_all_async once per stored
\* entry; the input holds pairwise distinct keys exactly when the map built
\* has one entry per pair, and init over n pairs followed by reinit_all
\* makes n invocations plus one per stored entry: 2n exactly when the keys
\* were pairwise distinct, fewer otherwise.
C17_OncePerPairAndEntry ==
    /\ (call.op \in {"init", "init_async"} /\ call.phase = "done") =>
           /\ OncePerPosition
           /\ ctor_calls = Some(Len(call.input))
           /\ DistinctKeys <=> Cardinality(DOMAIN map) = Len(call.input)
    /\ (call.op \in {"reinit_all", "reinit_all_async"} /\ Exhausted) =>
           OncePerPosition /\ Len(started) = Cardinality(DOMAIN before)
    /\ ReinitAllAfterInit =>
           LET n == Unwrap(ctor_calls)
           IN  /\ n + Len(started) = n + Cardinality(DOMAIN map)
               /\ n + Len(started) <= 2 * n
               /\ n + Len(started) = 2 * n <=> Cardinality(DOMAIN map) = n

\* A fully consumed reinit_all right after an init of two pairs with the
\* same key: two invocations by init, one by reinit_all.
C17_Witness ==
    /\ ReinitAllAfterInit
    /\ call.op = "reinit_all"
    /\ ctor_calls = Some(2)
    /\ Len(started) = 1
    /\ Cardinality(DOMAIN map) = 1

\* The reinit and update variants, sync and async.
MutatingOps == ReinitAllOps \cup ReinitOps \cup UpdateOps

\* C21 as stated: in every reinit and update variant, sync ones included,
\* no entry is replaced or inserted while a factory invocation of the same
\* call is still to be started or still running.
C21_AfterWholeBatch ==
    (call.op \in MutatingOps /\ call.phase \in {"await", "iter"} /\ map # before) =>
        /\ Range(started) = Invoked
        /\ Range(completed) = Invoked

\* C21, amended: in the async variants no entry is replaced or inserted
\* before every factory invocation of the call has completed; in the sync
\* variants an entry is replaced or inserted only once the invocation made
\* for its own input element has completed with success, no invocation is
\* running between two results, and the invocations for the elements not
\* yet consumed have not been started.
C21_AfterOwnInvocation ==
    (call.op \in MutatingOps /\ call.phase \in {"await", "iter"}) =>
        /\ (call.op \in AsyncIterOps /\ map # before) =>
               /\ Range(completed) = Invoked
               /\ \A i \in Indices(futs) : IsDone(futs[i])
        /\ call.op \notin AsyncIterOps =>
               /\ Range(started) = Range(completed)
               /\ Range(started) = Invoked \cap 1..Len(out)
               /\ \A k \in DOMAIN map \cup DOMAIN before :
                      Get(map, k) # Get(before, k) =>
                          \E i \in Range(completed) : KeyAt(i) = k /\ Succeeded(i)

\* An update of two pairs with one result consumed: the first pair's entry
\* is in the map, the factory has not been invoked for the second.
C21_Witness ==
    /\ call.op = "update"
    /\ call.phase = "iter"
    /\ Len(call.input) = 2
    /\ Len(out) = 1
    /\ map # before
    /\ started = <<1>>
    /\ completed = <<1>>
    /\ Invoked = {1, 2}

\* The component a 'present' result of a targeted reinit reports as previous.
Reported(i) ==
    IF call.op \in TryReinitOps THEN Unwrap(Unwrap(out[i].value)) ELSE Unwrap(out[i].value)

\* Positions i < j are two occurrences of one key with none in between.
NextOccurrence(i, j) ==
    /\ i < j
    /\ KeyAt(i) = KeyAt(j)
    /\ \A h \in (i + 1)..(j - 1) : KeyAt(h) # KeyAt(i)

\* Position i is the first occurrence of its key.
FirstOccurrence(i) == \A h \in 1..(i - 1) : KeyAt(h) # KeyAt(i)

\* C23: when a targeted reinit (reinit, reinit_async and the try_ forms)
\* lists a present key twice, the factory is invoked once for each
\* occurrence, both times on the stored args, and each occurrence gets a
\* 'present' result; where the invocations succeed (always, in the
\* infallible variants) the first occurrence reports the component stored
\* before the call and the second the component the first installed.
C23_EachOccurrence ==
    (call.op \in ReinitOps /\ call.phase = "iter") =>
        /\ Len(started) = Cardinality(Range(started))
        /\ \A i, j \in 1..Len(out) :
               (NextOccurrence(i, j) /\ Has(before, KeyAt(i))) =>
                   LET k == KeyAt(i)
                   IN  /\ {i, j} \subseteq Range(started)
                       /\ {i, j} \subseteq Range(completed)
                       /\ IsSome(out[i].value) /\ IsSome(out[j].value)
                       /\ out[i].key = k /\ out[j].key = k
                       /\ IF call.op \in TryReinitOps
                          THEN {Unwrap(Answer(i)), Unwrap(Answer(j))} \subseteq
                                   TryFnInit(before[k].args)
                          ELSE /\ Answer(i) = Some(Ok(FnInit(before[k].args)))
                               /\ Answer(j) = Some(Ok(FnInit(before[k].args)))
                       /\ (Succeeded(i) /\ FirstOccurrence(i)) =>
                              Reported(i) = before[k].component
                       /\ (Succeeded(i) /\ Succeeded(j)) => Reported(j) = NewComponent(i)

\* A reinit_async of one key listed twice, its component written through
\* components_mut before: the second invocation finished first, the first
\* result reports the written component, the second the rebuilt one.
C23_Witness ==
    /\ call.op = "reinit_async"
    /\ call.phase = "iter"
    /\ Len(call.input) = 2
    /\ KeyAt(1) = KeyAt(2)
    /\ completed = <<2, 1>>
    /\ Len(out) = 2
    /\ before[KeyAt(1)].component = Tampered
    /\ out[1] = Keyed(KeyAt(1), Some(Tampered))
    /\ out[2] = Keyed(KeyAt(1), Some(Produce(before[KeyAt(1)].args)))

\* The infallible reinit operations: their factory is a function of the args.
DeterministicReinitOps == {"reinit_all", "reinit", "reinit_all_async", "reinit_async"}

\* The previous component result i of such a call carries.
Previous(i) ==
    IF call.op \in {"reinit_all", "reinit_all_async"} THEN out[i].value
    ELSE Unwrap(out[i].value)

\* The component entry k of m holds is the one the factory builds from the
\* entry's args: nothing else was written over it through components_mut.
AsBuilt(m, k) == m[k].component = FnInit(m[k].args)

\* C26 as stated: with a deterministic factory and stored args unchanged
\* since the entry was built (the infallible variants: their args cannot be
\* changed here), reinit_all and reinit leave every processed key's
\* component as it was and report a previous component equal to the newly
\* stored one.
C26_Idempotent ==
    (call.op \in DeterministicReinitOps /\ call.phase = "iter") =>
        \A i \in 1..Len(out) :
            Has(before, KeyAt(i)) =>
                /\ map[KeyAt(i)].component = before[KeyAt(i)].component
                /\ Previous(i) = map[KeyAt(i)].component

\* C26, amended: the same, for the entries whose stored component is still
\* the one the factory built from the stored args (not overwritten through
\* components_mut since); if that holds of every entry, a fully consumed
\* call leaves the whole map as it was.
C26_IdempotentIfBuilt ==
    (call.op \in DeterministicReinitOps /\ call.phase = "iter") =>
        /\ \A i \in 1..Len(out) :
               (Has(before, KeyAt(i)) /\ AsBuilt(before, KeyAt(i))) =>
                   /\ map[KeyAt(i)] = before[KeyAt(i)]
                   /\ Previous(i) = map[KeyAt(i)].component
        /\ (Exhausted /\ \A k \in DOMAIN before : AsBuilt(before, k)) => map = before

\* A fully consumed reinit_all over two entries with different args, both
\* as built: the map is as before and each result reports what is stored.
C26_Witness ==
    /\ call.op = "reinit_all"
    /\ Exhausted
    /\ Len(out) = 2
    /\ \A k \in DOMAIN before : AsBuilt(before, k)
    /\ before[1].args # before[2].args
    /\ map = before
    /\ \A i \in 1..2 : out[i].value = map[KeyAt(i)].component

\* C27: in reinit_all_async and try_reinit_all_async, in every completion
\* order, the result computed for a position comes from the stored args of
\* that position's key, and when it is consumed that key, and no other,
\* receives it: on success the key holds the component built from its own
\* args and its previous component is reported, on failure the error of its
\* own args is reported and its entry stays; entries not yet reached are as
\* before.
C27_PairedWithOwnEntry ==
    (call.op \in {"reinit_all_async", "try_reinit_all_async"}
     /\ call.phase \in {"await", "iter"}) =>
        \A i \in Indices(call.input) :
            LET k == KeyAt(i)
            IN  /\ IsSome(Answer(i)) =>
                       Unwrap(Answer(i)) \in
                           IF call.op = "reinit_all_async"
                           THEN {Ok(FnInitKeyed(k, before[k].args))}
                           ELSE TryFnInit(before[k].args)
                /\ i <= Len(out) =>
                       /\ out[i].key = k
                       /\ Succeeded(i) =>
                              /\ map[k] = WithArgs(Produce(before[k].args), before[k].args)
                              /\ out[i].value = IF call.op = "reinit_all_async"
                                                THEN before[k].component
                                                ELSE Ok(before[k].component)
                       /\ Failed(i) =>
                              /\ map[k] = before[k]
                              /\ out[i].value = Err(TestError(before[k].args))
                /\ i > Len(out) => map[k] = before[k]

\* A fully consumed try_reinit_all_async over two entries with different
\* args whose second invocation finished first: the first key was rebuilt
\* from its own args, the second failed with the error of its own.
C27_Witness ==
    /\ call.op = "try_reinit_all_async"
    /\ Exhausted
    /\ Len(out) = 2
    /\ completed = <<2, 1>>
    /\ before[KeyAt(1)].args.value # before[KeyAt(2)].args.value
    /\ Succeeded(1)
    /\ Failed(2)
    /\ map[KeyAt(1)].component = Produce(before[KeyAt(1)].args)
    /\ out[2].value = Err(TestError(before[KeyAt(2)].args))

\* C28: sync try_init invokes the factory for the pairs in input order and
\* stops at the first failing one: when it fails, exactly the pairs up to
\* and including the first failing pair were invoked, in order, all before
\* it with success, and no pair after it was invoked; when it succeeds
\* every pair was invoked, in order.
C28_StopsAtFirstFailure ==
    (call.op = "try_init" /\ call.phase = "done") =>
        LET n == IF reg = "failed" THEN FirstFailed ELSE Len(call.input)
        IN  /\ reg = "failed" => FirstFailed # 0
            /\ started = [i \in 1..n |-> i]
            /\ completed = [i \in 1..n |-> i]
            /\ \A j \in Indices(call.input) :
                   /\ j < n => Succeeded(j)
                   /\ j > n => IsNone(Answer(j)) /\ j \notin Range(started)

\* A try_init of two pairs that are both set to fail, as in
\* test_try_init_all_fail: the factory was invoked for the first only.
C28_Witness ==
    /\ call.op = "try_init"
    /\ call.phase = "done"
    /\ reg = "failed"
    /\ Len(call.input) = 2
    /\ ArgsAt(1).should_fail
    /\ ArgsAt(2).should_fail
    /\ started = <<1>>
    /\ ctor = Err(TestError(ArgsAt(1)))

\* The operations that return a lazy iterator over their input.
SyncIterOps ==
    {"reinit_all", "reinit", "update", "try_reinit_all", "try_reinit", "try_update"}

\* C30: the sync reinit_all, reinit, update and their try_ forms work only
\* as their result sequence is consumed.  With no result consumed no
\* factory invocation has been made and the map is as it was at the call;
\* with n results consumed the factory has been invoked for exactly those
\* of the first n input elements that call for it, the map and the results
\* are those of processing the first n elements in order, and every key
\* that is not among the first n elements has the entry it had.
C30_WorkOnlyWhenConsumed ==
    (call.op \in SyncIterOps /\ call.phase = "iter") =>
        /\ Len(out) = 0 => (started = << >> /\ completed = << >> /\ map = before)
        /\ Len(futs) = Len(out)
        /\ Range(started) = Invoked \cap 1..Len(out)
        /\ Len(started) = Cardinality(Range(started))
        /\ completed = started
        /\ LET r == Replay([map |-> before, out |-> << >>], 1..Len(out), 1)
           IN  map = r.map /\ out = r.out
        /\ \A k \in DOMAIN before \cup DOMAIN map :
               k \notin {KeyAt(i) : i \in 1..Len(out)} => Get(map, k) = Get(before, k)

\* A try_reinit of two different stored keys with one result consumed: the
\* first key was rebuilt, the factory has not run for the second, whose
\* entry is as it was.
C30_Witness ==
    /\ call.op = "try_reinit"
    /\ call.phase = "iter"
    /\ Len(call.input) = 2
    /\ KeyAt(1) # KeyAt(2)
    /\ Has(before, KeyAt(1)) /\ Has(before, KeyAt(2))
    /\ Len(out) = 1
    /\ Succeeded(1)
    /\ started = <<1>>
    /\ map[KeyAt(1)] # before[KeyAt(1)]
    /\ map[KeyAt(2)] = before[KeyAt(2)]

\* -------------------------------------------------------------- fairness
\* A future of the call in progress completes.
AsyncPoll ==
    \/ \E i \in 1..MaxLen : init_async_poll(i)
    \/ \E i \in 1..NumKeys : reinit_all_async_poll(i)
    \/ \E i \in 1..MaxLen : reinit_async_poll(i)
    \/ \E i \in 1..MaxLen : update_async_poll(i)
    \/ \E i \in 1..MaxLen : try_init_async_poll(i)
    \/ \E i \in 1..NumKeys : try_reinit_all_async_poll(i)
    \/ \E i \in 1..MaxLen : try_reinit_async_poll(i)
    \/ \E i \in 1..MaxLen : try_update_async_poll(i)

\* join_all(..).await of the call in progress returns.
AsyncJoin ==
    \/ init_async_join \/ reinit_all_async_join \/ reinit_async_join \/ update_async_join
    \/ try_init_async_join \/ try_reinit_all_async_join \/ try_reinit_async_join
    \/ try_update_async_join

\* Every factory invocation that is running eventually completes, and the
\* executor resumes the call once join_all is ready.
FairSpec == Init /\ [][Next]_vars /\ WF_vars(AsyncPoll) /\ WF_vars(AsyncJoin)

AsyncOps == AsyncIterOps \cup {"init_async", "try_init_async"}

\* The async call in progress is suspended in join_all(..).await.
Awaiting == call.op \in AsyncOps /\ call.phase = "await"

\* The async call in progress has returned.
Returned == call.op \in AsyncOps /\ call.phase \in {"iter", "done"}

\* While it is suspended every invocation the call makes has been started;
\* once it has returned every one of them has completed and there is a
\* joined result for every input element.
LaunchedTogetherJoinedAll ==
    /\ Awaiting =>
           /\ Len(futs) = Len(call.input)
           /\ Range(started) = IF call.op \in InitOps THEN Indices(call.input) ELSE Invoked
           /\ Len(started) = Cardinality(Range(started))
           /\ out = << >>
    /\ Returned =>
           /\ Len(futs) = Len(call.input)
           /\ \A i \in Indices(futs) : IsDone(futs[i])
           /\ Range(completed) = Range(started)
           /\ Len(JoinAll(futs)) = Len(call.input)
           /\ call.phase = "iter" =>
                  (Len(out) < Len(call.input) => ENABLED IterNext)

\* C22: an async construction, reinit or update call launches all its
\* factory invocations together and does not return before all of them have
\* completed; if every invocation eventually completes the call eventually
\* returns, with a result for every input element.
C22_ReturnsWhenAllComplete ==
    /\ []LaunchedTogetherJoinedAll
    /\ Awaiting ~> Returned

\* A try_update_async of two pairs has returned after its second invocation
\* completed before its first.
C22_Witness ==
    /\ call.op = "try_update_async"
    /\ call.phase = "iter"
    /\ Len(call.input) = 2
    /\ completed = <<2, 1>>
    /\ \A i \in 1..2 : IsDone(futs[i])

\* The args the factory is given for input position i of the call in
\* progress: the pair's own in a construction or an update, the stored ones
\* in a reinit.
GivenArgs(i) ==
    IF call.op \in UpdateOps \cup InitOps THEN ArgsAt(i) ELSE before[KeyAt(i)].args

\* Whatever fn_init() last returned is the manager's factory, and every
\* answer the call in progress got is an answer of that factory.
FactoryUsed ==
    /\ IsSome(seen.fn_init) => Unwrap(seen.fn_init) = factory
    /\ (call.op \in MutatingOps \cup InitOps) =>
           \A i \in Indices(call.input) :
               /\ Succeeded(i) =>
                      /\ NewComponent(i) = GivenArgs(i).value * factory.mult
                      /\ factory.strict => ~GivenArgs(i).should_fail
               /\ Failed(i) =>
                      /\ GivenArgs(i).should_fail
                      /\ Unwrap(Answer(i)) = Err(TestError(GivenArgs(i)))

\* C24: whichever factory the manager is given, no step of any operation
\* replaces or changes it, fn_init returns it, and every answer a
\* construction, reinit or update call receives is that factory's.
C24_SameFactory == [][factory' = factory /\ FactoryUsed']_vars

\* A manager built with the plain factory: a fully consumed try_reinit
\* replaced a component written through components_mut by the plain
\* factory's component for the stored args.
C24_Witness ==
    /\ factory = PlainFactory
    /\ call.op = "try_reinit"
    /\ Exhausted
    /\ Len(out) >= 1
    /\ Has(before, KeyAt(1))
    /\ before[KeyAt(1)].component = Tampered
    /\ Succeeded(1)
    /\ before[KeyAt(1)].args.value = MaxVal
    /\ NewComponent(1) = MaxVal * Plain

\* A call of one of the read-only accessors.
Accessor == components \/ fn_init

\* C25: a call of components or fn_init changes nothing of the manager
\* (map, factory, or anything an operation left); what components returns
\* is the map as the last mutating operation left it, and it equals what
\* the previous call returned when no mutable borrow (operation or
\* components_mut) came in between; likewise for fn_init and the factory.
C25_AccessorsReadOnly ==
    [][Accessor =>
          /\ UNCHANGED <<reg, kind, map, call, futs, started, completed, out, ctor,
                         before, ctor_calls, factory>>
          /\ \A f \in {"components", "fn_init"} :
                 (IsSome(seen[f]) /\ IsSome(seen'[f])) => seen'[f] = seen[f]
          /\ IsSome(seen'.components) => Unwrap(seen'.components) = map'
          /\ IsSome(seen'.fn_init) => Unwrap(seen'.fn_init) = factory']_vars

\* components() and fn_init() have both been called since a component was
\* written through components_mut: components returned the map with the
\* written component, and can be called again.
C25_Witness ==
    /\ reg = "built"
    /\ call.phase = "idle"
    /\ seen.components = Some(map)
    /\ IsSome(seen.fn_init)
    /\ \E k \in DOMAIN map : map[k].component = Tampered
    /\ ENABLED components

\* What result i of a fallible reinit reports: Ok(previous) or Err(e).
ReportedResult(i) ==
    IF call.op \in TryReinitOps THEN Unwrap(out[i].value) ELSE out[i].value

\* A fallible reinit runs the factory on the args the map held when it was
\* called.  With the plain factory, which fails exactly on failing args, a
\* consumed position whose stored args are failing was invoked, reports the
\* error of those args, and its key's entry, component included, is as it
\* was.
ReinitReadsStoredArgs ==
    (call.op \in TryReinitAllOps \cup TryReinitOps /\ call.phase \in {"await", "iter"}) =>
        \A i \in Indices(call.input) :
            Has(before, KeyAt(i)) =>
                LET k == KeyAt(i)
                IN  /\ IsSome(Answer(i)) => Unwrap(Answer(i)) \in TryFnInit(before[k].args)
                    /\ (i <= Len(out) /\ Failed(i)) =>
                           ReportedResult(i) = Err(TestError(before[k].args))
                    /\ (i <= Len(out) /\ factory.strict /\ before[k].args.should_fail) =>
                           /\ i \in Range(started)
                           /\ Failed(i)
                           /\ map[k] = before[k]

\* With the plain factory no construction, update or reinit stores failing
\* args: a step after which an entry holds failing args it did not hold
\* before is a write through components_mut.
FailingArgsOnlyFromCaller ==
    (/\ factory.strict
     /\ \E k \in DOMAIN map' :
            /\ map'[k].args.should_fail
            /\ ~(Has(map, k) /\ map[k].args.should_fail))
        => \E key \in Keys : components_mut_args(key)

\* C29: a reinit reads the args stored in the map at the time of the call,
\* changes made through components_mut included: once a stored entry's
\* args were changed to failing ones, try_reinit / try_reinit_all (sync or
\* async) on that key runs the factory on the changed args, reports their
\* error and leaves the component as it was.
C29_ReinitReadsChangedArgs ==
    /\ []ReinitReadsStoredArgs
    /\ [][FailingArgsOnlyFromCaller]_vars

\* As in test_try_reinit_all_preserves_on_error: with the plain factory, an
\* entry's args were set to failing through components_mut; the try_reinit_all
\* that followed reports the error for that key and its component is as it
\* was.
C29_Witness ==
    /\ factory = PlainFactory
    /\ call.op = "try_reinit_all"
    /\ Exhausted
    /\ Len(out) = 2
    /\ before[KeyAt(1)].args.should_fail
    /\ ~before[KeyAt(2)].args.should_fail
    /\ before[KeyAt(2)].component = Tampered
    /\ out[1].value = Err(TestError(before[KeyAt(1)].args))
    /\ map[KeyAt(1)] = before[KeyAt(1)]
    /\ Succeeded(2)
    /\ map[KeyAt(2)].component = Produce(before[KeyAt(2)].args)

\* The iterator of an async reinit_all, reinit or update has been returned:
\* every factory invocation of the call has completed, and the map is what
\* applying the joined results of the consumed positions, in order, makes
\* of the map the call found; with nothing consumed, that map itself.
AppliedAsConsumed ==
    (call.op \in AsyncIterOps /\ call.phase = "iter") =>
        /\ \A i \in Indices(futs) : IsDone(futs[i])
        /\ Range(completed) = Invoked
        /\ Len(out) = 0 => map = before
        /\ LET r == Replay([map |-> before, out |-> << >>], 1..Len(out), 1)
           IN  map = r.map /\ out = r.out
        /\ \A k \in DOMAIN before \cup DOMAIN map :
               k \notin {KeyAt(i) : i \in 1..Len(out)} => Get(map, k) = Get(before, k)

\* The caller drops the iterator of an async call without consuming any
\* result: the map stays as the call found it and the joined results,
\* with the components built, are gone.
DroppedUnconsumed ==
    (Release /\ call.op \in AsyncIterOps /\ out = << >>) =>
        /\ map' = before
        /\ map' = map
        /\ futs' = << >>

\* C31: when an async reinit_all, reinit or update (or try_ form) returns,
\* every factory invocation has completed and the map is unchanged; the
\* entry of the i-th element is replaced or inserted when the i-th result
\* is consumed; dropping the results unconsumed leaves the map as before
\* the call and discards the components built.
C31_AppliedOnlyWhenConsumed ==
    /\ []AppliedAsConsumed
    /\ [][DroppedUnconsumed]_vars

\* A reinit_all_async has returned and nothing is consumed: the factory
\* built a component that differs from the stored one, which was written
\* through components_mut, the map is as before, and the iterator can be
\* dropped.
C31_Witness ==
    /\ call.op = "reinit_all_async"
    /\ call.phase = "iter"
    /\ out = << >>
    /\ Len(call.input) = 2
    /\ completed = <<2, 1>>
    /\ before[KeyAt(1)].component = Tampered
    /\ Succeeded(1)
    /\ NewComponent(1) # before[KeyAt(1)].component
    /\ map = before
    /\ ENABLED Release

\* Positions i < j carry one key, both invocations succeeded and no
\* occurrence of the key in between did.
NextSuccess(i, j) ==
    /\ i < j
    /\ KeyAt(i) = KeyAt(j)
    /\ Succeeded(i) /\ Succeeded(j)
    /\ \A h \in (i + 1)..(j - 1) : KeyAt(h) = KeyAt(i) => ~Succeeded(h)

\* The previous pair result j of an update reports, unwrapped.
PreviousPair(j) ==
    IF Fallible(kind) THEN Unwrap(Unwrap(out[j].value)) ELSE Unwrap(out[j].value)

\* C32: when an update (update, try_update and their async forms) holds a
\* key more than once the pairs are applied in input order, whatever the
\* order in which the async invocations finished: a later successful
\* occurrence reports as previous the pair the previous successful
\* occurrence installed, and once all is consumed the key's entry is the
\* one built from its last successful occurrence.
C32_SameKeyInInputOrder ==
    (call.op \in UpdateOps /\ call.phase = "iter") =>
        /\ \A i, j \in 1..Len(out) :
               NextSuccess(i, j) =>
                   /\ IsSome(out[j].value)
                   /\ PreviousPair(j) = WithArgs(NewComponent(i), ArgsAt(i))
                   /\ NewComponent(i) = Produce(ArgsAt(i))
        /\ Exhausted =>
               \A i \in Indices(call.input) :
                   (Succeeded(i) /\ \A h \in (i + 1)..Len(call.input) :
                                        KeyAt(h) = KeyAt(i) => ~Succeeded(h)) =>
                       /\ Has(map, KeyAt(i))
                       /\ map[KeyAt(i)] = WithArgs(Produce(ArgsAt(i)), ArgsAt(i))

\* A fully consumed update_async of one key given twice with different
\* args, the second invocation finishing first: the second result reports
\* the first pair's entry and the key holds the second pair's.
C32_Witness ==
    /\ call.op = "update_async"
    /\ Exhausted
    /\ Len(call.input) = 2
    /\ KeyAt(1) = KeyAt(2)
    /\ ArgsAt(1) # ArgsAt(2)
    /\ completed = <<2, 1>>
    /\ out[2].value = Some(WithArgs(Produce(ArgsAt(1)), ArgsAt(1)))
    /\ map[KeyAt(1)] = WithArgs(Produce(ArgsAt(2)), ArgsAt(2))

\* The answer of a factory that depends on the args only: the plain one.
Deterministic(args) ==
    IF args.should_fail THEN Err(TestError(args)) ELSE Ok(Produce(args))

\* What the closure of the sync fallible operation matching the async
\* fallible operation op does on the map m with the input element x.
TrySyncItem(op, m, x) ==
    CASE op = "try_reinit_all_async" -> try_reinit_all_item(m, x, Deterministic(m[x].args))
      [] op = "try_reinit_async" ->
             IF Has(m, x) THEN try_reinit_item(m, x, Deterministic(m[x].args))
             ELSE [map |-> m, item |-> Keyed(x, None)]
      [] op = "try_update_async" -> try_update_item(m, x[1], x[2], Deterministic(x[2]))

\* The sync fallible operation matching op, consumed up to element n of the
\* input inp, from r = [map, out] and element i on.
RECURSIVE TrySyncRun(_, _, _, _, _)
TrySyncRun(op, r, inp, i, n) ==
    IF i > n THEN r
    ELSE LET x == TrySyncItem(op, r.map, inp[i])
         IN  TrySyncRun(op, [map |-> x.map, out |-> Append(r.out, x.item)], inp, i + 1, n)

\* What try_init returns for entries: [reg, map, ctor].
TrySyncInit(entries) ==
    LET rs == [i \in Indices(entries) |-> Deterministic(entries[i][2])]
        f == FirstErr(rs)
    IN  [reg |-> IF f = 0 THEN "built" ELSE "failed",
         map |-> IF f = 0
                 THEN Collect([i \in Indices(entries) |->
                         <<entries[i][1], WithArgs(Unwrap(rs[i]), entries[i][2])>>])
                 ELSE EmptyMap,
         ctor |-> IF f = 0 THEN Ok("registry") ELSE rs[f]]

FallibleAsyncOps == {"try_reinit_all_async", "try_reinit_async", "try_update_async"}

\* C33: with a factory that depends on the args only, the async fallible
\* variant does, call for call, what the sync fallible variant does from
\* the same map on the same input: try_init_async returns what try_init
\* returns; try_reinit_async and try_update_async yield the map and the
\* results of try_reinit and try_update, element for element;
\* try_reinit_all_async yields the map of try_reinit_all and the same
\* result for every key, whichever way the sync map is walked.  All this
\* for every completion order.
C33_FallibleSameSemantics ==
    factory.strict =>
        /\ (call.op \in TryInitOps /\ call.phase = "done") =>
               [reg |-> reg, map |-> map, ctor |-> ctor] = TrySyncInit(call.input)
        /\ (call.op \in FallibleAsyncOps /\ call.phase = "iter") =>
               TrySyncRun(call.op, [map |-> before, out |-> << >>], call.input, 1, Len(out)) =
                   [map |-> map, out |-> out]
        /\ (call.op = "try_reinit_all_async" /\ Exhausted) =>
               \A order \in Orders(DOMAIN before) :
                   LET s == TrySyncRun(call.op, [map |-> before, out |-> << >>],
                                       order, 1, Len(order))
                   IN  s.map = map /\ Range(s.out) = Range(out)

\* With the plain factory, a fully consumed try_update_async of one key
\* given twice, the first pair failing, the second succeeding and
\* finishing first: map and results are those of try_update.
C33_Witness ==
    /\ factory = PlainFactory
    /\ call.op = "try_update_async"
    /\ Exhausted
    /\ Len(call.input) = 2
    /\ KeyAt(1) = KeyAt(2)
    /\ Has(before, KeyAt(1))
    /\ completed = <<2, 1>>
    /\ Failed(1)
    /\ Succeeded(2)
    /\ TrySyncRun(call.op, [map |-> before, out |-> << >>], call.input, 1, 2) =
           [map |-> map, out |-> out]

\* The keys of the input of the call in progress.
InputKeys == {KeyAt(i) : i \in Indices(call.input)}

\* The key set during one call: a successful construction leaves the keys
\* it was given, a reinit the keys it found, an update the keys it found
\* and those of the consumed pairs whose invocation succeeded.
KeysOfCall ==
    /\ (call.op \in InitOps /\ call.phase = "done" /\ reg = "built") => DOMAIN map = InputKeys
    /\ (call.op \in ReinitAllOps \cup ReinitOps /\ call.phase \in {"await", "iter"}) =>
           DOMAIN map = DOMAIN before
    /\ (call.op \in UpdateOps /\ call.phase \in {"await", "iter"}) =>
           DOMAIN map = DOMAIN before \cup {KeyAt(i) : i \in {j \in 1..Len(out) : Succeeded(j)}}

\* One step of any operation removes no key, and a key it adds is either a
\* key given to the construction that has just succeeded or the key of the
\* update pair whose result has just been consumed, its invocation having
\* succeeded.
KeysOfStep ==
    /\ reg = "built" => DOMAIN map \subseteq DOMAIN map'
    /\ \A k \in DOMAIN map' \ DOMAIN map :
           \/ /\ reg = "none" /\ reg' = "built"
              /\ call'.op \in InitOps
              /\ k \in {call'.input[i][1] : i \in Indices(call'.input)}
           \/ /\ call.op \in UpdateOps
              /\ out' # out
              /\ KeyAt(Len(out))' = k
              /\ Succeeded(Len(out))'

\* C34: no init, reinit or update removes a key; the key set of the map is
\* always the keys given at construction together with the keys of the
\* update pairs whose invocation succeeded and whose result was consumed.
C34_KeysNeverRemoved ==
    /\ []KeysOfCall
    /\ [][KeysOfStep]_vars

\* As in test_try_update_multiple_mixed: a fully consumed try_update of two
\* new keys, the first failing, the second succeeding, on a manager built
\* with no entries: only the second key was added.
C34_Witness ==
    /\ call.op = "try_update"
    /\ Exhausted
    /\ Len(call.input) = 2
    /\ KeyAt(1) # KeyAt(2)
    /\ before = EmptyMap
    /\ Failed(1)
    /\ Succeeded(2)
    /\ DOMAIN map = {KeyAt(2)}

\* C35: an update (update, try_update and their async forms) whose pairs
\* carry the keys S leaves, at every point of the call, the entry of every
\* stored key outside S as it was, args and component, and stores no key
\* outside S that was not stored.
C35_UpdateFrame ==
    (call.op \in UpdateOps /\ call.phase \in {"await", "iter"}) =>
        /\ \A k \in DOMAIN before \ InputKeys : Has(map, k) /\ map[k] = before[k]
        /\ DOMAIN map \ InputKeys = DOMAIN before \ InputKeys

\* A fully consumed try_update_async of two pairs for one of two stored
\* keys, the other key holding a component written through components_mut:
\* the updated key's entry changed, the other entry is as it was.
C35_Witness ==
    /\ call.op = "try_update_async"
    /\ Exhausted
    /\ Len(call.input) = 2
    /\ InputKeys = {1}
    /\ DOMAIN before = {1, 2}
    /\ before[2].component = Tampered
    /\ Succeeded(2)
    /\ map[1] # before[1]
    /\ map[2] = before[2]

====
